---- MODULE Spec2Model ----
(***************************************************************************)
(* Model of the as2-parser front end: the tokenizer (rs/src/lexer.rs), the *)
(* SyntaxKind numbering, the typed view of the concrete syntax tree and    *)
(* the string unescaper (rs/src/types/syntax.rs), and the serializer of    *)
(* the owned tree (rs/src/types/ast/ser.rs, rs/src/types/owned.rs).        *)
(*                                                                         *)
(* A text is a sequence of characters, a character a one-character string. *)
(* Every character used is ASCII, so a length in characters is the length  *)
(* in bytes the code computes with.  A `Chars` iterator over a text s is   *)
(* the number p of characters already consumed: `chars.next()` yields      *)
(* s[p+1] and moves to p+1, or yields None and stays at p = Len(s);        *)
(* `chars.clone()` / `*chars = old_chars` save and restore p.              *)
(***************************************************************************)
EXTENDS Integers, Sequences, FiniteSets

VARIABLES
  input,     \* the text given to Lexer::new
  text,      \* Lexer.text: the text not yet tokenized
  prev,      \* Lexer.text when the latest call of Lexer::next started
  tokens,    \* the tokens returned so far, in order (what `lex` collects)
  pc,        \* "run": iterating, "done": next returned None, "panic": aborted
  kindIn,    \* the SyntaxKind last encoded with into_u16 ("-" when none)
  rawVal,    \* the u16 last given to SyntaxKind::try_from
  decoded,   \* the result of that try_from
  unesc,     \* a quoted text, the call last made on it and what it returned
  cst,       \* an Expr over a syntax node, its cast and the accessor last called
  ser,       \* an owned Script and the document it was serialized to
  app        \* a function of the typed layer applied: its argument and result

lexVars == <<input, text, prev, tokens, pc>>
kindVars == <<kindIn, rawVal, decoded>>
vars == <<input, text, prev, tokens, pc, kindIn, rawVal, decoded, unesc, cst, ser, app>>

-----------------------------------------------------------------------------
(* Characters *)

LowerLetters ==
  {"a","b","c","d","e","f","g","h","i","j","k","l","m",
   "n","o","p","q","r","s","t","u","v","w","x","y","z"}

UpperLetters ==
  {"A","B","C","D","E","F","G","H","I","J","K","L","M",
   "N","O","P","Q","R","S","T","U","V","W","X","Y","Z"}

Digits == {"0","1","2","3","4","5","6","7","8","9"}

\* The value of chars.next() at the end of the text.
NoChar == "<none>"

is_whitespace(c) == c = "\n" \/ c = "\r" \/ c = " "

is_line_terminator_sequence_start(c) == c = "\n" \/ c = "\r"

is_id_start(c) == c \in LowerLetters \cup UpperLetters \cup {"$", "_"}

is_id_continue(c) == c \in LowerLetters \cup UpperLetters \cup Digits \cup {"$", "_"}

-----------------------------------------------------------------------------
(* The Chars iterator *)

\* The character chars.next() yields at position p of s.
Peek(s, p) == IF p < Len(s) THEN s[p + 1] ELSE NoChar

\* The position after chars.next().
Adv(s, p) == IF p < Len(s) THEN p + 1 ELSE p

\* What a scanning function leaves: the kind it returns and the position of
\* the iterator.
Scan(k, p) == [kind |-> k, pos |-> p]

\* unimplemented!(): the call does not return.
Unimplemented == [kind |-> "unimplemented!", pos |-> 0]

-----------------------------------------------------------------------------
(* Scanning functions of lexer.rs *)

\* `first` has been consumed and the iterator is at p.
end_line_terminator_sequence(first, s, p) ==
  IF first = "\r"
    THEN IF Peek(s, p) = "\n" THEN p + 1 ELSE p
    ELSE p

\* The mutant of end_trailing_comment that consumes the first character of
\* the line terminator sequence only.
RECURSIVE end_trailing_comment_one_char(_, _)
end_trailing_comment_one_char(s, p) ==
  LET c == Peek(s, p) IN
  IF c = NoChar THEN Scan("TokenTrailingComment", p)
  ELSE IF is_line_terminator_sequence_start(c)
    THEN Scan("TokenTrailingComment", p + 1)
  ELSE end_trailing_comment_one_char(s, p + 1)

RECURSIVE end_trailing_comment(_, _)
end_trailing_comment(s, p) ==
  LET c == Peek(s, p) IN
  IF c = NoChar THEN Scan("TokenTrailingComment", p)
  ELSE IF is_line_terminator_sequence_start(c)
    THEN Scan("TokenTrailingComment", end_line_terminator_sequence(c, s, p + 1))
  ELSE end_trailing_comment(s, p + 1)

\* The mutant of end_double_quoted_string in which a backslash does not
\* skip the next character.
RECURSIVE end_double_quoted_string_no_skip(_, _)
end_double_quoted_string_no_skip(s, p) ==
  LET c == Peek(s, p) IN
  IF c = NoChar THEN Scan("TokenError", p)
  ELSE IF c = "\"" THEN Scan("TokenStrLit", p + 1)
  ELSE end_double_quoted_string_no_skip(s, p + 1)

RECURSIVE end_double_quoted_string(_, _)
end_double_quoted_string(s, p) ==
  LET c == Peek(s, p) IN
  IF c = NoChar THEN Scan("TokenError", p)
  ELSE IF c = "\"" THEN Scan("TokenStrLit", p + 1)
  ELSE IF c = "\\" THEN end_double_quoted_string(s, Adv(s, p + 1))
  ELSE end_double_quoted_string(s, p + 1)

\* The mutant of end_id that does not restore the iterator, and so takes
\* the character that ends the identifier.
RECURSIVE end_id_no_restore(_, _)
end_id_no_restore(s, p) ==
  LET c == Peek(s, p) IN
  IF c # NoChar /\ is_id_continue(c)
    THEN end_id_no_restore(s, p + 1)
    ELSE Scan("TokenIdent", Adv(s, p))

RECURSIVE end_id(_, _)
end_id(s, p) ==
  LET c == Peek(s, p) IN
  IF c # NoChar /\ is_id_continue(c)
    THEN end_id(s, p + 1)
    ELSE Scan("TokenIdent", p)

\* The mutant of KeywordArm that does not restore the iterator after the
\* look-ahead.
KeywordArmNoRestore(kw, s, p) ==
  LET c == Peek(s, p) IN
  IF c # NoChar /\ is_id_continue(c)
    THEN end_id(s, p + 1)
    ELSE Scan(kw, Adv(s, p))

\* The arm taken once the last letter of keyword kw has been consumed:
\* look one character ahead, and restore the iterator unless the identifier
\* goes on.
KeywordArm(kw, s, p) ==
  LET c == Peek(s, p) IN
  IF c # NoChar /\ is_id_continue(c)
    THEN end_id(s, p + 1)
    ELSE Scan(kw, p)

\* The two closing arms of every other match of end_id_or_keyword, c being
\* the character chars.next() has just yielded at p:
\*   Some(c) if is_id_continue(c) => end_id(chars),
\*   _ => SyntaxKind::TokenIdent,
\* The iterator is not restored in the second arm.
IdentArm(s, p) ==
  LET c == Peek(s, p) IN
  IF c # NoChar /\ is_id_continue(c)
    THEN end_id(s, p + 1)
    ELSE Scan("TokenIdent", Adv(s, p))

\* `first` has been consumed and the iterator is at p.
end_id_or_keyword(first, s, p) ==
  IF first = "t" THEN
    IF Peek(s, p) = "h" THEN
      IF Peek(s, p + 1) = "i" THEN
        IF Peek(s, p + 2) = "s" THEN KeywordArm("TokenThis", s, p + 3)
        ELSE IdentArm(s, p + 2)
      ELSE IF Peek(s, p + 1) = "r" THEN
        IF Peek(s, p + 2) = "o" THEN
          IF Peek(s, p + 3) = "w" THEN KeywordArm("TokenThrow", s, p + 4)
          ELSE IdentArm(s, p + 3)
        ELSE IdentArm(s, p + 2)
      ELSE IdentArm(s, p + 1)
    ELSE IF Peek(s, p) = "r" THEN
      IF Peek(s, p + 1) = "u" THEN
        IF Peek(s, p + 2) = "e" THEN KeywordArm("TokenTrue", s, p + 3)
        ELSE IdentArm(s, p + 2)
      ELSE IF Peek(s, p + 1) = "y" THEN KeywordArm("TokenTry", s, p + 2)
      ELSE IdentArm(s, p + 1)
    ELSE IdentArm(s, p)
  ELSE Unimplemented

\* The loop of end_whitespace, the iterator at p.
RECURSIVE WhitespaceLoop(_, _, _)
WhitespaceLoop(s, p, multiline) ==
  LET c == Peek(s, p) IN
  IF c # NoChar /\ is_line_terminator_sequence_start(c)
    THEN WhitespaceLoop(s, end_line_terminator_sequence(c, s, p + 1), TRUE)
  ELSE IF c # NoChar /\ is_whitespace(c)
    THEN WhitespaceLoop(s, p + 1, multiline)
  ELSE Scan(IF multiline THEN "TokenMultilineWhitespace"
                         ELSE "TokenUnilineWhitespace", p)

\* The mutant of end_whitespace that does not look at `first` to set
\* `multiline`.
end_whitespace_first_ignored(first, s, p) == WhitespaceLoop(s, p, FALSE)

\* `first` has been consumed and the iterator is at p.
end_whitespace(first, s, p) ==
  IF is_line_terminator_sequence_start(first)
    THEN WhitespaceLoop(s, end_line_terminator_sequence(first, s, p), TRUE)
    ELSE WhitespaceLoop(s, p, FALSE)

-----------------------------------------------------------------------------
(* next_token and the Lexer iterator *)

\* input[..token_len]
TokenText(s, token_len) == SubSeq(s, 1, token_len)

\* The mutant of RestText that also drops the character after the token.
RestTextOffByOne(s, token_len) == SubSeq(s, token_len + 2, Len(s))

\* &self.text[token.text.len()..]
RestText(s, token_len) == SubSeq(s, token_len + 1, Len(s))

LexerToken(k, t) == [kind |-> k, text |-> t]

\* The match of next_token on the first character: the kind, and the
\* iterator position from which token_len is computed.
TokenScan(s) ==
  LET first == s[1] IN
  IF first = "/" THEN
    IF Peek(s, 1) = "/" THEN end_trailing_comment(s, 2) ELSE Unimplemented
  ELSE IF is_id_start(first) THEN end_id_or_keyword(first, s, 1)
  ELSE IF is_whitespace(first) THEN end_whitespace(first, s, 1)
  ELSE IF first = ";" THEN Scan("TokenSemicolon", 1)
  ELSE IF first = "(" THEN Scan("TokenOpenParen", 1)
  ELSE IF first = ")" THEN Scan("TokenCloseParen", 1)
  ELSE IF first = "\"" THEN end_double_quoted_string(s, 1)
  ELSE Unimplemented

\* next_token(input): "None", "Some" with the token, or "Panic" when the
\* call aborts in unimplemented!().
next_token(s) ==
  IF Len(s) = 0 THEN [tag |-> "None", token |-> LexerToken("-", <<>>)]
  ELSE LET r == TokenScan(s) IN
       IF r = Unimplemented
         THEN [tag |-> "Panic", token |-> LexerToken("-", <<>>)]
         ELSE [tag |-> "Some", token |-> LexerToken(r.kind, TokenText(s, r.pos))]

-----------------------------------------------------------------------------
(* SyntaxKind and its u16 numbering *)

\* The variants of `enum SyntaxKind`, in declaration order: with #[repr(u16)]
\* and no explicit discriminant, the variant at index i has the value i - 1.
SyntaxKindVariants ==
  <<
   "TokenError", "TokenUnilineWhitespace", "TokenMultilineWhitespace", "TokenTrailingComment",
   "TokenMultilineComment", "TokenUnilineComment", "TokenDelete", "TokenFalse",
   "TokenFor", "TokenThrow", "TokenThis", "TokenTrue",
   "TokenTry", "TokenTypeof", "TokenVar", "TokenVoid",
   "TokenIdent", "TokenStrLit", "TokenNumLit", "TokenSemicolon",
   "TokenColon", "TokenComa", "TokenOpenBrace", "TokenCloseBrace",
   "TokenOpenBracket", "TokenCloseBracket", "TokenOpenParen", "TokenCloseParen",
   "TokenEq", "TokenEqEq", "TokenEqEqEq", "TokenNotEq",
   "TokenNotEqEq", "TokenTilde", "TokenExcl", "TokenQuestion",
   "TokenLt", "TokenLtLt", "TokenLtEq", "TokenGt",
   "TokenGtGt", "TokenGtGtGt", "TokenGtEq", "TokenPlus",
   "TokenPlusPlus", "TokenMinus", "TokenMinusMinus", "TokenPipe",
   "TokenPipePipe", "TokenAmp", "TokenAmpAmp", "TokenSlash",
   "TokenPercent", "TokenStar", "TokenCaret", "TokenDot",
   "NodeBoolLit", "NodeNumLit", "NodeArrayLit", "NodeObjectLit",
   "NodeObjectLitProp", "NodeStrLit", "NodeIdent", "NodeSeqExpr",
   "NodeAssignExpr", "NodeCondExpr", "NodeInfixExpr", "NodePrefixExpr",
   "NodePostfixExpr", "NodeParenExpr", "NodeIdentMemberExpr", "NodeComputedMemberExpr",
   "NodeCallExpr", "NodeArgs", "NodeBreakStmt", "NodeExprStmt",
   "NodeVarStmt", "NodeVarDecl", "NodeScript"
  >>

SyntaxKinds == {SyntaxKindVariants[i] : i \in DOMAIN SyntaxKindVariants}

\* #[derive(VariantCount)]: the number of variants.
VARIANT_COUNT == Len(SyntaxKindVariants)

\* `self as u16`
into_u16(k) == (CHOOSE i \in DOMAIN SyntaxKindVariants : SyntaxKindVariants[i] = k) - 1

\* std::mem::transmute::<u16, SyntaxKind>(value), for a value that is the
\* discriminant of a variant.
Transmute(value) == SyntaxKindVariants[value + 1]

KindOk(k) == [tag |-> "Ok", kind |-> k]

KindErr == [tag |-> "Err", kind |-> "-"]

\* The mutant of SyntaxKind_try_from that accepts VARIANT_COUNT itself and
\* reinterprets it as a kind that is no variant.
SyntaxKind_try_from_inclusive(value) ==
  IF value <= VARIANT_COUNT
    THEN KindOk(IF value < VARIANT_COUNT THEN Transmute(value) ELSE "<invalid>")
    ELSE KindErr

\* <SyntaxKind as TryFrom<u16>>::try_from
SyntaxKind_try_from(value) ==
  IF value < VARIANT_COUNT THEN KindOk(Transmute(value)) ELSE KindErr

\* The largest u16 given to try_from.
MaxRaw == 200

-----------------------------------------------------------------------------
(* Inputs *)

\* Longest free tail of an input text.
MaxTail == 2

\* The characters the free tail of an input is drawn from: one or more of
\* each class the tokenizer tells apart.
Alphabet ==
  {"t", "h", "r", "x", "1", " ", "\r", "\n", "/", ";", "(", ")", "\"", "\\", "+"}

RECURSIVE TextsOfLen(_)
TextsOfLen(n) ==
  IF n = 0 THEN {<<>>}
  ELSE {Append(s, c) : s \in TextsOfLen(n - 1), c \in Alphabet}

Tails == UNION {TextsOfLen(n) : n \in 0..MaxTail}

\* What comes before the free tail: nothing, the start of a comment, of a
\* string or of an escape in a string, and every prefix of the four reserved
\* words.
Heads ==
  {<<>>, <<"/", "/">>, <<"\"">>, <<"\"", "\\">>,
   <<"t">>, <<"t","h">>, <<"t","h","i">>, <<"t","h","i","s">>,
   <<"t","h","r">>, <<"t","h","r","o">>, <<"t","h","r","o","w">>,
   <<"t","r">>, <<"t","r","u">>, <<"t","r","u","e">>, <<"t","r","y">>}

\* What comes before the head, so that a token also starts in mid-text.
Fronts == {<<>>, <<"(">>, <<" ">>}

\* rs/tests/as2 hello-world/main.as2: trace("Hello, World!"); and a newline
HelloWorld ==
  <<"t","r","a","c","e","(","\"","H","e","l","l","o",","," ",
    "W","o","r","l","d","!","\"",")",";","\n">>

Inputs == {f \o h \o t : f \in Fronts, h \in Heads, t \in Tails} \cup {HelloWorld}

-----------------------------------------------------------------------------
(* The tokenizer as a state machine *)

\* No lexer is running.
LexIdle == input = <<>> /\ text = <<>> /\ prev = <<>> /\ tokens = <<>> /\ pc = "run"

\* No text is being unescaped.
UnescIdle == unesc = "-"

\* No expression is being cast.
CstIdle == cst = "-"

\* No script is being serialized.
SerIdle == ser = "-"

\* No other function of the typed layer is being applied.
AppIdle == app = "-"

\* What the state machines over `app` leave alone.
restVars == <<input, text, prev, tokens, pc, kindIn, rawVal, decoded, unesc, cst, ser>>

\* No kind has been encoded or decoded.
KindIdle == kindIn = "-" /\ rawVal = 0 /\ decoded = [tag |-> "-", kind |-> "-"]

\* None of the state machines over the other variables is running.
AllIdle == LexIdle /\ KindIdle /\ UnescIdle /\ CstIdle /\ SerIdle

\* Lexer::new(text)
Init ==
  /\ input \in Inputs
  /\ text = input
  /\ prev = input
  /\ tokens = <<>>
  /\ pc = "run"
  /\ KindIdle
  /\ UnescIdle
  /\ CstIdle
  /\ SerIdle
  /\ AppIdle

\* Lexer::next, as `lex` calls it until it returns None.
LexerNext ==
  /\ pc = "run"
  /\ LET r == next_token(text) IN
     /\ prev' = text
     /\ IF r.tag = "Some"
          THEN /\ text' = RestText(text, Len(r.token.text))
               /\ tokens' = Append(tokens, r.token)
               /\ pc' = "run"
          ELSE /\ text' = text
               /\ tokens' = tokens
               /\ pc' = IF r.tag = "None" THEN "done" ELSE "panic"
  /\ UNCHANGED <<input, kindVars, unesc, cst, ser, app>>

Next == LexerNext

Spec == Init /\ [][Next]_vars

-----------------------------------------------------------------------------
(* The kind numbering as a state machine *)

InitKind == LexIdle /\ KindIdle /\ UnescIdle /\ CstIdle /\ SerIdle /\ AppIdle

\* SyntaxKind::try_from(value) on any u16, as As2Lang::kind_from_raw does
\* with the raw kind of a tree element.
KindFromRaw ==
  \E value \in 0..MaxRaw :
    /\ kindIn' = "-"
    /\ rawVal' = value
    /\ decoded' = SyntaxKind_try_from(value)
    /\ UNCHANGED <<lexVars, unesc, cst, ser, app>>

\* As2Lang::kind_to_raw(kind), then kind_from_raw on the value stored.
KindToRaw ==
  \E kind \in SyntaxKinds :
    /\ kindIn' = kind
    /\ rawVal' = into_u16(kind)
    /\ decoded' = SyntaxKind_try_from(into_u16(kind))
    /\ UNCHANGED <<lexVars, unesc, cst, ser, app>>

NextKind == KindFromRaw \/ KindToRaw

SpecKind == InitKind /\ [][NextKind]_vars

-----------------------------------------------------------------------------
(* Properties of the tokenizer *)

RECURSIVE ConcatTexts(_)
ConcatTexts(toks) ==
  IF toks = <<>> THEN <<>>
  ELSE ConcatTexts(SubSeq(toks, 1, Len(toks) - 1)) \o toks[Len(toks)].text

\* The latest call of Lexer::next returned a token: LastToken, scanned at
\* the start of prev.
LastCallEmitted == pc = "run" /\ tokens # <<>>

LastToken == tokens[Len(tokens)]

IsPrefix(k, s) == Len(k) <= Len(s) /\ SubSeq(s, 1, Len(k)) = k

\* The length of the longest prefix of s whose characters all satisfy
\* InClass.
RunLen(s, InClass(_)) ==
  CHOOSE n \in 0..Len(s) :
    /\ \A i \in 1..n : InClass(s[i])
    /\ n = Len(s) \/ ~InClass(s[n + 1])

\* C1: the texts of the tokens emitted so far, followed by the lexer's
\* remaining text, are the input; once the lexer is exhausted the texts of
\* the tokens alone are the input.
C1_Lossless ==
  /\ ConcatTexts(tokens) \o text = input
  /\ pc = "done" => ConcatTexts(tokens) = input

C1_Witness == pc = "done" /\ Len(tokens) >= 3

\* C2: the tokenizer never aborts: on a non-empty remaining input,
\* next_token returns a token whatever the leading character is.
C2_NeverAborts == pc # "panic"

\* C3: every call of Lexer::next returns a token of one byte or more and
\* shortens the remaining input by exactly its text, or returns None on an
\* empty remaining input; so no more tokens are emitted than the input has
\* bytes.
C3_Progress ==
  /\ \/ pc = "run" /\ tokens = <<>> /\ text = input
     \/ /\ LastCallEmitted
        /\ Len(LastToken.text) >= 1
        /\ prev = LastToken.text \o text
     \/ pc = "done" /\ prev = <<>> /\ text = <<>>
  /\ Len(tokens) <= Len(input)

ReservedWords ==
  {[word |-> <<"t","h","i","s">>, kind |-> "TokenThis"],
   [word |-> <<"t","h","r","o","w">>, kind |-> "TokenThrow"],
   [word |-> <<"t","r","u","e">>, kind |-> "TokenTrue"],
   [word |-> <<"t","r","y">>, kind |-> "TokenTry"]}

\* C4: at a reserved word followed by the end of the input or by a
\* character that does not continue an identifier, the token is the keyword
\* with exactly the word as text; at a reserved word followed by
\* identifier-continue characters, the token is one TokenIdent over the
\* whole maximal identifier run.
C4_Keywords ==
  LastCallEmitted =>
    \A k \in ReservedWords :
      IsPrefix(k.word, prev) =>
        LET follow == Peek(prev, Len(k.word)) IN
        IF follow = NoChar \/ ~is_id_continue(follow)
          THEN LastToken = LexerToken(k.kind, k.word)
          ELSE LastToken =
                 LexerToken("TokenIdent", SubSeq(prev, 1, RunLen(prev, is_id_continue)))

C4_Witness ==
  /\ LastCallEmitted
  /\ LastToken.kind = "TokenThrow"
  /\ text # <<>>
  /\ Len(tokens) >= 2

\* C5: the text of every TokenIdent token starts with a character of
\* [A-Za-z_$] and goes on with characters of [A-Za-z0-9_$] only.
C5_IdentChars ==
  \A i \in 1..Len(tokens) :
    tokens[i].kind = "TokenIdent" =>
      /\ is_id_start(tokens[i].text[1])
      /\ \A j \in 1..Len(tokens[i].text) : is_id_continue(tokens[i].text[j])

IsWhitespaceKind(k) == k \in {"TokenUnilineWhitespace", "TokenMultilineWhitespace"}

\* C6: at a space, CR or LF the token is the maximal run of space, CR and LF,
\* TokenMultilineWhitespace if the run holds a CR or LF and
\* TokenUnilineWhitespace if not; such a token never stops between a CR and
\* its LF, and no two whitespace tokens are adjacent.
C6_Whitespace ==
  /\ (LastCallEmitted /\ is_whitespace(prev[1])) =>
       LET n == RunLen(prev, is_whitespace) IN
       /\ LastToken.text = SubSeq(prev, 1, n)
       /\ LastToken.kind =
            IF \E i \in 1..n : prev[i] \in {"\r", "\n"}
              THEN "TokenMultilineWhitespace"
              ELSE "TokenUnilineWhitespace"
       /\ ~(prev[n] = "\r" /\ Peek(text, 0) = "\n")
  /\ \A i \in 1..(Len(tokens) - 1) :
       ~(IsWhitespaceKind(tokens[i].kind) /\ IsWhitespaceKind(tokens[i + 1].kind))

C6_Witness ==
  /\ LastCallEmitted
  /\ LastToken = LexerToken("TokenMultilineWhitespace", <<"\r", "\n">>)
  /\ Len(tokens) >= 2

IsLineTerminator(c) == c \in {"\r", "\n"}

NotLineTerminator(c) == ~IsLineTerminator(c)

\* The length of the prefix of s that ends with the first line terminator
\* sequence of s (\n, \r or \r\n), or Len(s) when s has none.
ThroughLineEnd(s) ==
  LET n == RunLen(s, NotLineTerminator) IN
  IF n = Len(s) THEN n
  ELSE IF s[n + 1] = "\r" /\ Peek(s, n + 1) = "\n" THEN n + 2
  ELSE n + 1

\* C7, as stated: a TokenTrailingComment token extends up to the next line
\* terminator, which it does not include (or to the end of the input): its
\* text holds no CR and no LF.
C7_CommentStopsBeforeLineEnd ==
  (LastCallEmitted /\ LastToken.kind = "TokenTrailingComment") =>
    /\ LastToken.text = SubSeq(prev, 1, RunLen(prev, NotLineTerminator))
    /\ \A i \in 1..Len(LastToken.text) : NotLineTerminator(LastToken.text[i])

\* C7, amended: a TokenTrailingComment token starts at `//` and extends
\* through the next line terminator sequence (\n, \r or \r\n), which it
\* includes, or to the end of the input when there is none; it holds no CR
\* or LF before that final sequence, and the text left does not start
\* with the LF of a CR LF the comment ends in.
C7_CommentIncludesLineEnd ==
  (LastCallEmitted /\ IsPrefix(<<"/", "/">>, prev)) =>
    LET n == RunLen(prev, NotLineTerminator) IN
    /\ LastToken = LexerToken("TokenTrailingComment", SubSeq(prev, 1, ThroughLineEnd(prev)))
    /\ \A i \in 1..Len(LastToken.text) : IsLineTerminator(LastToken.text[i]) => i > n
    /\ Len(LastToken.text) <= n + 2
    /\ ~(prev[Len(LastToken.text)] = "\r" /\ Peek(text, 0) = "\n")

C7_Witness ==
  /\ LastCallEmitted
  /\ LastToken = LexerToken("TokenTrailingComment", <<"/", "/", "\r", "\n">>)

\* The number of backslashes in a row that end right before position i of
\* s, the character at position 1 (the opening quote) left out.
BackslashesBefore(s, i) ==
  CHOOSE n \in 0..(i - 2) :
    /\ \A j \in (i - n)..(i - 1) : s[j] = "\\"
    /\ n = i - 2 \/ s[i - n - 1] # "\\"

\* The positions of the double quotes of s that no backslash consumes.
ClosingQuotes(s) ==
  {i \in 2..Len(s) : s[i] = "\"" /\ BackslashesBefore(s, i) % 2 = 0}

\* C8: a token that starts with a double quote ends just after the first
\* double quote that no backslash consumes, and is a TokenStrLit; when the
\* input ends before such a quote the token is a TokenError over the rest of
\* the input, after which nothing is left to scan, so that it is the only
\* error token of the string.
C8_StringLiteral ==
  /\ (LastCallEmitted /\ prev[1] = "\"") =>
       IF ClosingQuotes(prev) # {}
         THEN LET close == CHOOSE i \in ClosingQuotes(prev) :
                             \A j \in ClosingQuotes(prev) : i <= j
              IN LastToken = LexerToken("TokenStrLit", SubSeq(prev, 1, close))
         ELSE LastToken = LexerToken("TokenError", prev) /\ text = <<>>
  /\ \A i \in 1..Len(tokens) :
       tokens[i].kind = "TokenError" => i = Len(tokens) /\ text = <<>>

C8_Witness ==
  /\ LastCallEmitted
  /\ LastToken = LexerToken("TokenError", <<"\"", "\\", "\"">>)

HelloWorldTokens ==
  <<LexerToken("TokenIdent", <<"t","r","a","c","e">>),
    LexerToken("TokenOpenParen", <<"(">>),
    LexerToken("TokenStrLit",
               <<"\"","H","e","l","l","o",","," ","W","o","r","l","d","!","\"">>),
    LexerToken("TokenCloseParen", <<")">>),
    LexerToken("TokenSemicolon", <<";">>),
    LexerToken("TokenMultilineWhitespace", <<"\n">>)>>

\* C9: lexing `trace("Hello, World!");` and a newline emits, in source
\* order, TokenIdent `trace`, TokenOpenParen, TokenStrLit `"Hello, World!"`,
\* TokenCloseParen, TokenSemicolon and TokenMultilineWhitespace, and
\* nothing else.
C9_HelloWorld ==
  input = HelloWorld =>
    /\ pc # "panic"
    /\ Len(tokens) <= Len(HelloWorldTokens)
    /\ tokens = SubSeq(HelloWorldTokens, 1, Len(tokens))
    /\ pc = "done" => tokens = HelloWorldTokens

C9_Witness == input = HelloWorld /\ pc = "done" /\ Len(tokens) = 6

-----------------------------------------------------------------------------
(* Properties of the kind numbering *)

\* C10: VARIANT_COUNT is 79; try_from(v) is Ok(k) with k.into_u16() = v for
\* every v below VARIANT_COUNT and Err for every other v; and
\* try_from(k.into_u16()) is Ok(k) for every kind k.
C10_KindDecoding ==
  /\ VARIANT_COUNT = 79
  /\ decoded.tag # "-" =>
       /\ rawVal < VARIANT_COUNT =>
            /\ decoded.tag = "Ok"
            /\ decoded.kind \in SyntaxKinds
            /\ into_u16(decoded.kind) = rawVal
       /\ rawVal >= VARIANT_COUNT => decoded = KindErr
       /\ kindIn # "-" => decoded = KindOk(kindIn)

C10_Witness == kindIn = "NodeScript" /\ rawVal = 78 /\ decoded = KindOk("NodeScript")

-----------------------------------------------------------------------------
(* The concrete syntax tree and the kind predicates of syntax.rs *)

\* Option and panics: Some(v), None, and a call that does not return
\* (panic!, unimplemented!, unreachable!, a failed assert!, unwrap of None).
Some(v) == [tag |-> "Some", val |-> v]

None == [tag |-> "None"]

Panic(msg) == [tag |-> "panic", val |-> msg]

\* Nothing has been returned yet.
NoResult == [tag |-> "-"]

\* A token of the tree (rowan SyntaxToken): its kind and its text.
CstToken(k, t) == [node |-> FALSE, kind |-> k, text |-> t, children |-> <<>>]

\* A node of the tree (rowan SyntaxNode): its kind and its child symbols,
\* nodes and tokens, in source order.
CstNode(k, cs) == [node |-> TRUE, kind |-> k, text |-> <<>>, children |-> cs]

\* children_with_tokens(): every child symbol.
children_with_tokens(n) == n.children

\* children(): the child nodes.
children(n) == SelectSeq(n.children, LAMBDA e : e.node)

\* first_child(): the first child node.
first_child(n) == IF children(n) = <<>> THEN None ELSE Some(children(n)[1])

\* first_token(): the first token under the node.
RECURSIVE first_token(_)
first_token(n) ==
  IF n.children = <<>> THEN None
  ELSE LET f == n.children[1] IN IF f.node THEN first_token(f) ELSE Some(f)

\* x.unwrap()
unwrap(x) == IF x.tag = "Some" THEN x ELSE Panic("unwrap on None")

is_expr(k) ==
  k \in {"NodeArrayLit", "NodeAssignExpr", "NodeIdent", "NodeInfixExpr",
         "NodeBoolLit", "NodeCallExpr", "NodeNumLit", "NodeObjectLit",
         "NodeParenExpr", "NodePostfixExpr", "NodePrefixExpr", "NodeSeqExpr",
         "NodeStrLit"}

is_assign_op(k) == k \in {"TokenEq"}

is_logical_op(k) == k \in {"TokenPipePipe", "TokenAmpAmp"}

is_unary_op(k) == k \in {"TokenExcl", "TokenMinus", "TokenPlus"}

is_prefix_update_op(k) == k \in {"TokenDelete", "TokenMinusMinus", "TokenPlusPlus"}

is_postfix_update_op(k) == k \in {"TokenMinusMinus", "TokenPlusPlus"}

is_bin_op(k) ==
  k \in {"TokenAmp", "TokenCaret", "TokenEqEq", "TokenEqEqEq", "TokenLt",
         "TokenLtLt", "TokenMinus", "TokenPipe", "TokenPlus", "TokenSlash",
         "TokenStar"}

is_prefix_op(k) == is_unary_op(k) \/ is_prefix_update_op(k)

is_infix_op(k) == is_bin_op(k) \/ is_logical_op(k) \/ is_assign_op(k)

\* trim_paren as the code has it is trim_paren below; this one takes off one
\* pair of parentheses only.
trim_paren_once(node) ==
  IF ~is_expr(node.kind) THEN Panic("assert!(is_expr)")
  ELSE IF node.kind # "NodeParenExpr" THEN Some(node)
  ELSE unwrap(first_child(node))

\* trim_paren: the expression under any enclosing parentheses.
RECURSIVE trim_paren(_)
trim_paren(node) ==
  IF ~is_expr(node.kind) THEN Panic("assert!(is_expr)")
  ELSE IF node.kind # "NodeParenExpr" THEN Some(node)
  ELSE LET inner == unwrap(first_child(node))
       IN IF inner.tag = "panic" THEN inner ELSE trim_paren(inner.val)

\* The loop of find_postfix_op.
RECURSIVE FindPostfixOpFrom(_, _)
FindPostfixOpFrom(symbols, i) ==
  IF i > Len(symbols) THEN Panic("NoPostfixOp")
  ELSE IF ~symbols[i].node /\ is_postfix_update_op(symbols[i].kind) THEN Some(symbols[i])
  ELSE FindPostfixOpFrom(symbols, i + 1)

find_postfix_op(symbols) == FindPostfixOpFrom(symbols, 1)

\* The loop of find_prefix_op.
RECURSIVE FindPrefixOpFrom(_, _)
FindPrefixOpFrom(symbols, i) ==
  IF i > Len(symbols) THEN Panic("NoPrefixOp")
  ELSE IF ~symbols[i].node /\ is_prefix_op(symbols[i].kind) THEN Some(symbols[i])
  ELSE FindPrefixOpFrom(symbols, i + 1)

find_prefix_op(symbols) == FindPrefixOpFrom(symbols, 1)

\* find_infix_op as the code has it is find_infix_op below; this one looks
\* for the operator among all the tokens under the symbols, in source order,
\* and not only among the symbols themselves.
RECURSIVE TokensUnder(_)
TokensUnder(n) ==
  IF ~n.node THEN <<n>>
  ELSE IF n.children = <<>> THEN <<>>
  ELSE LET k == Len(n.children)
       IN TokensUnder([n EXCEPT !.children = SubSeq(n.children, 1, k - 1)])
            \o TokensUnder(n.children[k])

RECURSIVE FirstInfixOpIn(_, _)
FirstInfixOpIn(toks, i) ==
  IF i > Len(toks) THEN Panic("NoInfixOp")
  ELSE IF i > 1 /\ is_infix_op(toks[i].kind) THEN Some(toks[i])
  ELSE FirstInfixOpIn(toks, i + 1)

find_infix_op_deep(symbols) ==
  FirstInfixOpIn(TokensUnder(CstNode("NodeInfixExpr", symbols)), 1)

\* find_infix_op as the code has it is find_infix_op below; this one takes
\* the first infix operator among the direct children, a child node before
\* it or not.
find_infix_op_no_left(symbols) ==
  LET ops == SelectSeq(symbols, LAMBDA e : ~e.node /\ is_infix_op(e.kind))
  IN IF ops = <<>> THEN Panic("NoInfixOp") ELSE Some(ops[1])

\* The loop of find_infix_op: found_left is set by the first child node.
RECURSIVE FindInfixOpFrom(_, _, _)
FindInfixOpFrom(symbols, i, found_left) ==
  IF i > Len(symbols) THEN Panic("NoInfixOp")
  ELSE IF symbols[i].node THEN FindInfixOpFrom(symbols, i + 1, TRUE)
  ELSE IF found_left /\ is_infix_op(symbols[i].kind) THEN Some(symbols[i])
  ELSE FindInfixOpFrom(symbols, i + 1, found_left)

find_infix_op(symbols) == FindInfixOpFrom(symbols, 1, FALSE)

-----------------------------------------------------------------------------
(* The string unescaper of syntax.rs *)

\* Result<char, UnescapeError> of unescape_char.
CharOk(c) == [tag |-> "Ok", val |-> c]

CharErr(e) == [tag |-> "Err", val |-> e]

\* The control characters "\u{0008}", "\u{000c}" and "\u{000b}".
Backspace == "U+0008"

FormFeed == "U+000C"

VerticalTab == "U+000B"

\* find_quoted_content: the kind of the delimiters and the text between them.
find_quoted_content(quoted) ==
  IF Len(quoted) = 0 THEN None
  ELSE IF Len(quoted) = 1 THEN None
  ELSE LET first == quoted[1]
           last  == quoted[Len(quoted)]
           content == SubSeq(quoted, 2, Len(quoted) - 1)
       IN IF first = "\"" /\ last = "\"" THEN Some([quotes |-> "Double", content |-> content])
          ELSE IF first = "'" /\ last = "'" THEN Some([quotes |-> "Single", content |-> content])
          ELSE None

\* unescape_char as the code has it is unescape_char below; this one takes
\* the character after a backslash as it stands, whatever it is.
unescape_char_lenient(first_char, s, p, quotes) ==
  IF first_char = "\"" /\ quotes = "Double" THEN [res |-> CharErr("EscapeOnlyChar"), pos |-> p]
  ELSE IF first_char = "'" /\ quotes = "Single" THEN [res |-> CharErr("EscapeOnlyChar"), pos |-> p]
  ELSE IF first_char = "\\" THEN
    IF Peek(s, p) = NoChar THEN [res |-> CharErr("LoneSlash"), pos |-> p]
    ELSE [res |-> CharOk(Peek(s, p)), pos |-> Adv(s, p)]
  ELSE [res |-> CharOk(first_char), pos |-> p]

\* unescape_char: first_char has been taken from the iterator, which stands
\* at p; the result and the position the iterator is left at.
unescape_char(first_char, s, p, quotes) ==
  IF first_char = "\"" /\ quotes = "Double" THEN [res |-> CharErr("EscapeOnlyChar"), pos |-> p]
  ELSE IF first_char = "'" /\ quotes = "Single" THEN [res |-> CharErr("EscapeOnlyChar"), pos |-> p]
  ELSE IF first_char = "\\" THEN
    LET c == Peek(s, p)
        q == Adv(s, p)
    IN CASE c = NoChar -> [res |-> CharErr("LoneSlash"), pos |-> q]
         [] c = "'"    -> [res |-> CharOk("'"), pos |-> q]
         [] c = "\""   -> [res |-> CharOk("\""), pos |-> q]
         [] c = "\\"   -> [res |-> CharOk("\\"), pos |-> q]
         [] c = "b"    -> [res |-> CharOk(Backspace), pos |-> q]
         [] c = "f"    -> [res |-> CharOk(FormFeed), pos |-> q]
         [] c = "n"    -> [res |-> CharOk("\n"), pos |-> q]
         [] c = "r"    -> [res |-> CharOk("\r"), pos |-> q]
         [] c = "t"    -> [res |-> CharOk("\t"), pos |-> q]
         [] c = "v"    -> [res |-> CharOk(VerticalTab), pos |-> q]
         [] c = "x"    -> [res |-> Panic("unimplemented!(UnescapeHexSequence)"), pos |-> q]
         [] c = "u"    -> [res |-> Panic("unimplemented!(UnescapeUnicodeSequence)"), pos |-> q]
         [] c = "0"    -> [res |-> Panic("unimplemented!(UnescapeNulOrOctal)"), pos |-> q]
         [] OTHER      -> [res |-> Panic("unimplemented!(UnescapeNonEscapeChar)"), pos |-> q]
  ELSE [res |-> CharOk(first_char), pos |-> p]

\* The loop of unescape_string_content: the calls made to the callback, each
\* with the range of the content it reports on and the result for it, and
\* whether, and why, the loop was cut short by a panic.
RECURSIVE UnescapeLoop(_, _, _, _)
UnescapeLoop(s, p, quotes, calls) ==
  IF Peek(s, p) = NoChar THEN [calls |-> calls, panic |-> FALSE, why |-> ""]
  ELSE LET r == unescape_char(Peek(s, p), s, Adv(s, p), quotes)
       IN IF r.res.tag = "panic" THEN [calls |-> calls, panic |-> TRUE, why |-> r.res.val]
          ELSE UnescapeLoop(s, r.pos, quotes,
                            Append(calls, [start |-> p, end |-> r.pos, res |-> r.res]))

unescape_string_content(s, quotes) == UnescapeLoop(s, 0, quotes, <<>>)

\* The callback of unescape_string applied to every call: the characters
\* pushed to `unescaped` and the final `has_error`.
RECURSIVE Unescaped(_)
Unescaped(calls) ==
  IF calls = <<>> THEN <<>>
  ELSE LET c == calls[Len(calls)]
           before == Unescaped(SubSeq(calls, 1, Len(calls) - 1))
       IN IF c.res.tag = "Ok" THEN Append(before, c.res.val) ELSE before

\* HasError as the code has it is HasError below; this one has the callback
\* overwrite has_error on every call, so that only the last call counts.
HasErrorOfLast(calls) == calls # <<>> /\ calls[Len(calls)].res.tag = "Err"

HasError(calls) == \E i \in 1..Len(calls) : calls[i].res.tag = "Err"

\* unescape_string: Some(unescaped text), None, or a panic.
unescape_string(quoted) ==
  LET found == find_quoted_content(quoted) IN
  IF found.tag = "None" THEN None
  ELSE LET run == unescape_string_content(found.val.content, found.val.quotes)
       IN IF run.panic THEN Panic(run.why)
          ELSE IF HasError(run.calls) THEN None
          ELSE Some(Unescaped(run.calls))

\* The callback calls unescape_string makes on a quoted text.
CallbackCalls(quoted) ==
  LET found == find_quoted_content(quoted) IN
  IF found.tag = "None" THEN <<>>
  ELSE unescape_string_content(found.val.content, found.val.quotes).calls

-----------------------------------------------------------------------------
(* The typed view of expressions: Expr::cast and the accessors *)

\* A variant of ExprCast holding a wrapper over `syntax`.
Wrapper(variant, syntax) == Some([variant |-> variant, syntax |-> syntax])

\* Expr::cast of the Expr over `syntax`: the variant and the wrapper, which
\* holds `syntax` itself and not the node under its parentheses.
Expr_cast(syntax) ==
  LET inner_syntax == trim_paren(syntax) IN
  IF inner_syntax.tag = "panic" THEN inner_syntax
  ELSE LET inner == inner_syntax.val
           k == inner.kind
       IN CASE k = "NodeAssignExpr" -> Wrapper("Assign", syntax)
            [] k = "NodeBoolLit" -> Wrapper("BoolLit", syntax)
            [] k = "NodeCallExpr" -> Wrapper("Call", syntax)
            [] k = "NodeIdent" -> Wrapper("Ident", syntax)
            [] k = "NodeInfixExpr" ->
                 LET op == find_infix_op(children_with_tokens(inner))
                 IN IF op.tag = "panic" THEN op
                    ELSE IF is_logical_op(op.val.kind) THEN Wrapper("Logical", syntax)
                    ELSE IF is_bin_op(op.val.kind) THEN Wrapper("Bin", syntax)
                    ELSE Panic("unreachable!()")
            [] k = "NodeNumLit" -> Wrapper("NumLit", syntax)
            [] k = "NodePostfixExpr" ->
                 LET op == find_postfix_op(children_with_tokens(inner))
                 IN IF op.tag = "panic" THEN op
                    ELSE IF is_postfix_update_op(op.val.kind) THEN Wrapper("Update", syntax)
                    ELSE Panic("unimplemented!()")
            [] k = "NodePrefixExpr" ->
                 LET op == find_prefix_op(children_with_tokens(inner))
                 IN IF op.tag = "panic" THEN op
                    ELSE IF is_unary_op(op.val.kind) THEN Wrapper("Unary", syntax)
                    ELSE IF is_prefix_update_op(op.val.kind) THEN Wrapper("Update", syntax)
                    ELSE Panic("unimplemented!()")
            [] k = "NodeSeqExpr" -> Wrapper("Seq", syntax)
            [] k = "NodeStrLit" -> Wrapper("StrLit", syntax)
            [] OTHER -> Wrapper("Error", syntax)

\* Expr::try_from: Ok(Expr) as Some, Err(()) as None.
Expr_try_from(syntax) == IF is_expr(syntax.kind) THEN Some(syntax) ELSE None

\* `match Expr::try_from(node) { Ok(e) => e, Err(()) => unimplemented!() }`
\* on the result of an unwrap.
ExprOrUnimplemented(unwrapped) ==
  IF unwrapped.tag = "panic" THEN unwrapped
  ELSE IF Expr_try_from(unwrapped.val).tag = "Some" THEN unwrapped
  ELSE Panic("unimplemented!()")

\* nodes.next() after i - 1 calls of it on children().
NthChild(n, i) == IF i <= Len(children(n)) THEN Some(children(n)[i]) ELSE None

\* The second child node, each of the two next() unwrapped.
SecondChild(n) ==
  IF unwrap(NthChild(n, 1)).tag = "panic" THEN unwrap(NthChild(n, 1))
  ELSE unwrap(NthChild(n, 2))

\* ExprIter: the child nodes that are expressions.
ExprIter(n) == SelectSeq(children(n), LAMBDA e : is_expr(e.kind))

\* The loop of AssignExpr::_value.
RECURSIVE AssignValueFrom(_, _, _)
AssignValueFrom(symbols, i, found_assign_op) ==
  IF i > Len(symbols) THEN Panic("InvalidAssignExpr")
  ELSE IF ~symbols[i].node
    THEN AssignValueFrom(symbols, i + 1, found_assign_op \/ is_assign_op(symbols[i].kind))
  ELSE IF found_assign_op /\ Expr_try_from(symbols[i]).tag = "Some" THEN Some(symbols[i])
  ELSE AssignValueFrom(symbols, i + 1, found_assign_op)

AssignExpr_value(syntax) == AssignValueFrom(children_with_tokens(syntax), 1, FALSE)

BinExpr_left(syntax) == ExprOrUnimplemented(unwrap(first_child(syntax)))

BinExpr_right(syntax) == ExprOrUnimplemented(SecondChild(syntax))

BinExpr_op(syntax) ==
  LET op == find_infix_op(children_with_tokens(syntax)) IN
  IF op.tag = "panic" THEN op
  ELSE CASE op.val.kind = "TokenPlus" -> Some("Add")
         [] op.val.kind = "TokenAmp" -> Some("BitAnd")
         [] op.val.kind = "TokenPipe" -> Some("BitOr")
         [] op.val.kind = "TokenCaret" -> Some("BitXor")
         [] op.val.kind = "TokenEqEq" -> Some("Equals")
         [] op.val.kind = "TokenLt" -> Some("Less")
         [] op.val.kind = "TokenLtLt" -> Some("LeftShift")
         [] op.val.kind = "TokenStar" -> Some("Multiply")
         [] op.val.kind = "TokenEqEqEq" -> Some("StrictEquals")
         [] OTHER -> Panic("unimplemented!()")

BoolLit_value(syntax) ==
  LET token == unwrap(first_token(syntax)) IN
  IF token.tag = "panic" THEN token
  ELSE CASE token.val.kind = "TokenFalse" -> Some(FALSE)
         [] token.val.kind = "TokenTrue" -> Some(TRUE)
         [] OTHER -> Panic("panic!()")

CallExpr_callee(syntax) == ExprOrUnimplemented(unwrap(first_child(syntax)))

CallExpr_args(syntax) ==
  LET call_expr == trim_paren(syntax) IN
  IF call_expr.tag = "panic" THEN call_expr
  ELSE LET args == SecondChild(call_expr.val)
       IN IF args.tag = "panic" THEN args ELSE Some(ExprIter(args.val))

IdentExpr_name(syntax) ==
  LET inner == trim_paren(syntax) IN
  IF inner.tag = "panic" THEN inner
  ELSE LET token == unwrap(first_token(inner.val))
       IN IF token.tag = "panic" THEN token ELSE Some(token.val.text)

LogicalExpr_left(syntax) == ExprOrUnimplemented(unwrap(first_child(syntax)))

LogicalExpr_right(syntax) == ExprOrUnimplemented(SecondChild(syntax))

LogicalExpr_op(syntax) ==
  LET op == find_infix_op(children_with_tokens(syntax)) IN
  IF op.tag = "panic" THEN op
  ELSE CASE op.val.kind = "TokenAmpAmp" -> Some("Or")
         [] op.val.kind = "TokenPipePipe" -> Some("And")
         [] OTHER -> Panic("unreachable!()")

\* f64::from_str on a text of decimal digits; it fails on any other text
\* given here (hexadecimal literals are not supported).
DigitValue(c) == CHOOSE d \in 0..9 : <<"0", "1", "2", "3", "4", "5", "6", "7", "8", "9">>[d + 1] = c

RECURSIVE DecimalValue(_)
DecimalValue(t) ==
  IF t = <<>> THEN 0
  ELSE 10 * DecimalValue(SubSeq(t, 1, Len(t) - 1)) + DigitValue(t[Len(t)])

parse_num_lit(t) ==
  IF t # <<>> /\ \A i \in 1..Len(t) : t[i] \in Digits THEN Some(DecimalValue(t))
  ELSE Panic("unwrap on Err")

NumLit_value(syntax) ==
  LET inner == trim_paren(syntax) IN
  IF inner.tag = "panic" THEN inner
  ELSE LET token == unwrap(first_token(inner.val))
       IN IF token.tag = "panic" THEN token ELSE parse_num_lit(token.val.text)

SeqExpr_exprs(syntax) ==
  LET inner == trim_paren(syntax) IN
  IF inner.tag = "panic" THEN inner ELSE Some(ExprIter(inner.val))

StrLit_value(syntax) ==
  LET token == unwrap(first_token(syntax)) IN
  IF token.tag = "panic" THEN token
  ELSE LET r == unescape_string(token.val.text)
       IN IF r.tag = "panic" THEN r ELSE unwrap(r)

\* UnaryExpr::_arg and UpdateExpr::_arg have the same body.
PrefixArg(syntax) ==
  LET inner_syntax == trim_paren(syntax) IN
  IF inner_syntax.tag = "panic" THEN inner_syntax
  ELSE ExprOrUnimplemented(unwrap(first_child(inner_syntax.val)))

UnaryExpr_arg(syntax) == PrefixArg(syntax)

UnaryExpr_op(syntax) ==
  LET inner_syntax == trim_paren(syntax) IN
  IF inner_syntax.tag = "panic" THEN inner_syntax
  ELSE LET op == find_prefix_op(children_with_tokens(inner_syntax.val))
       IN IF op.tag = "panic" THEN op
          ELSE CASE op.val.kind = "TokenTilde" -> Some("BitNot")
                 [] op.val.kind = "TokenMinus" -> Some("Neg")
                 [] op.val.kind = "TokenExcl" -> Some("Not")
                 [] op.val.kind = "TokenPlus" -> Some("ToNum")
                 [] op.val.kind = "TokenTypeof" -> Some("TypeOf")
                 [] op.val.kind = "TokenVoid" -> Some("Void")
                 [] OTHER -> Panic("unreachable!()")

UpdateExpr_arg(syntax) == PrefixArg(syntax)

UpdateExpr_op(syntax) ==
  LET inner_syntax == trim_paren(syntax) IN
  IF inner_syntax.tag = "panic" THEN inner_syntax
  ELSE LET inner == inner_syntax.val
       IN CASE inner.kind = "NodePostfixExpr" ->
                 LET op == find_postfix_op(children_with_tokens(inner))
                 IN IF op.tag = "panic" THEN op
                    ELSE CASE op.val.kind = "TokenMinusMinus" -> Some("PostDec")
                           [] op.val.kind = "TokenPlusPlus" -> Some("PostInc")
                           [] OTHER -> Panic("unreachable!()")
            [] inner.kind = "NodePrefixExpr" ->
                 LET op == find_prefix_op(children_with_tokens(inner))
                 IN IF op.tag = "panic" THEN op
                    ELSE CASE op.val.kind = "TokenDelete" -> Some("Delete")
                           [] op.val.kind = "TokenMinusMinus" -> Some("PreDec")
                           [] op.val.kind = "TokenPlusPlus" -> Some("PreInc")
                           [] OTHER -> Panic("unreachable!()")
            [] OTHER -> Panic("unreachable!()")

-----------------------------------------------------------------------------
(* Expressions given to Expr::cast *)

\* Deepest nesting of parentheses put around an expression.
MaxParen == 2

Tok(k, c) == CstToken(k, <<c>>)

IdentA == CstNode("NodeIdent", <<Tok("TokenIdent", "a")>>)

TrueLit == CstNode("NodeBoolLit", <<CstToken("TokenTrue", <<"t", "r", "u", "e">>)>>)

FalseLit == CstNode("NodeBoolLit", <<CstToken("TokenFalse", <<"f", "a", "l", "s", "e">>)>>)

OneLit == CstNode("NodeNumLit", <<Tok("TokenNumLit", "1")>>)

StrLitA == CstNode("NodeStrLit", <<CstToken("TokenStrLit", <<"\"", "a", "\"">>)>>)

EmptyArrayLit ==
  CstNode("NodeArrayLit", <<Tok("TokenOpenBracket", "["), Tok("TokenCloseBracket", "]")>>)

EmptyObjectLit ==
  CstNode("NodeObjectLit", <<Tok("TokenOpenBrace", "{"), Tok("TokenCloseBrace", "}")>>)

Paren(e) ==
  CstNode("NodeParenExpr", <<Tok("TokenOpenParen", "("), e, Tok("TokenCloseParen", ")")>>)

RECURSIVE ParenN(_, _)
ParenN(e, n) == IF n = 0 THEN e ELSE Paren(ParenN(e, n - 1))

\* The source text of the operator tokens.
OpText ==
  [k \in {"TokenAmp", "TokenCaret", "TokenEqEq", "TokenEqEqEq", "TokenLt",
          "TokenLtLt", "TokenMinus", "TokenPipe", "TokenPlus", "TokenSlash",
          "TokenStar", "TokenPipePipe", "TokenAmpAmp", "TokenEq", "TokenTilde",
          "TokenExcl", "TokenTypeof", "TokenVoid", "TokenDelete",
          "TokenMinusMinus", "TokenPlusPlus"} |->
     CASE k = "TokenAmp" -> <<"&">>
       [] k = "TokenCaret" -> <<"^">>
       [] k = "TokenEqEq" -> <<"=", "=">>
       [] k = "TokenEqEqEq" -> <<"=", "=", "=">>
       [] k = "TokenLt" -> <<"<">>
       [] k = "TokenLtLt" -> <<"<", "<">>
       [] k = "TokenMinus" -> <<"-">>
       [] k = "TokenPipe" -> <<"|">>
       [] k = "TokenPlus" -> <<"+">>
       [] k = "TokenSlash" -> <<"/">>
       [] k = "TokenStar" -> <<"*">>
       [] k = "TokenPipePipe" -> <<"|", "|">>
       [] k = "TokenAmpAmp" -> <<"&", "&">>
       [] k = "TokenEq" -> <<"=">>
       [] k = "TokenTilde" -> <<"~">>
       [] k = "TokenExcl" -> <<"!">>
       [] k = "TokenTypeof" -> <<"t", "y", "p", "e", "o", "f">>
       [] k = "TokenVoid" -> <<"v", "o", "i", "d">>
       [] k = "TokenDelete" -> <<"d", "e", "l", "e", "t", "e">>
       [] k = "TokenMinusMinus" -> <<"-", "-">>
       [] k = "TokenPlusPlus" -> <<"+", "+">>]

OpToken(k) == CstToken(k, OpText[k])

Infix(left, op, right) == CstNode("NodeInfixExpr", <<left, OpToken(op), right>>)

Prefix(op, arg) == CstNode("NodePrefixExpr", <<OpToken(op), arg>>)

Postfix(arg, op) == CstNode("NodePostfixExpr", <<arg, OpToken(op)>>)

SeqOf(first, second) == CstNode("NodeSeqExpr", <<first, Tok("TokenComa", ","), second>>)

Assign(target, value) == CstNode("NodeAssignExpr", <<target, OpToken("TokenEq"), value>>)

ArgsOf(exprs) ==
  CstNode("NodeArgs",
          <<Tok("TokenOpenParen", "(")>> \o exprs \o <<Tok("TokenCloseParen", ")")>>)

CallOf(callee, exprs) == CstNode("NodeCallExpr", <<callee, ArgsOf(exprs)>>)

\* The operator tokens of the language by position.
InfixOps == {k \in SyntaxKinds : is_bin_op(k) \/ is_logical_op(k)}

UnaryOps == {"TokenTilde", "TokenMinus", "TokenExcl", "TokenPlus", "TokenTypeof", "TokenVoid"}

PrefixUpdateOps == {"TokenDelete", "TokenMinusMinus", "TokenPlusPlus"}

PostfixOps == {"TokenMinusMinus", "TokenPlusPlus"}

\* The operands of the composite expressions.
Operands ==
  {IdentA, Paren(IdentA), Paren(Infix(IdentA, "TokenPlus", IdentA)),
   Paren(Infix(IdentA, "TokenAmpAmp", IdentA))}

Leaves == {IdentA, TrueLit, FalseLit, OneLit, StrLitA, EmptyArrayLit, EmptyObjectLit}

\* The well-formed expressions without parentheses around them.
BaseExprs ==
  Leaves
    \cup {Infix(l, op, r) : l \in Operands, op \in InfixOps, r \in Operands}
    \cup {Prefix(op, e) : op \in UnaryOps \cup PrefixUpdateOps, e \in Operands}
    \cup {Postfix(e, op) : e \in Operands, op \in PostfixOps}
    \cup {SeqOf(e, f) : e \in Operands, f \in Operands}
    \cup {Assign(IdentA, e) : e \in Operands}
    \cup {CallOf(e, args) : e \in Operands, args \in {<<>>, <<IdentA>>, <<IdentA, OneLit>>}}

-----------------------------------------------------------------------------
(* Casting as a state machine *)

\* The accessors each wrapper has.
Accessors(variant) ==
  CASE variant = "Assign" -> {"value"}
    [] variant = "Bin" -> {"op", "left", "right"}
    [] variant = "BoolLit" -> {"value"}
    [] variant = "Call" -> {"callee", "args"}
    [] variant = "Ident" -> {"name"}
    [] variant = "Logical" -> {"op", "left", "right"}
    [] variant = "NumLit" -> {"value"}
    [] variant = "Seq" -> {"exprs"}
    [] variant = "StrLit" -> {"value"}
    [] variant = "Unary" -> {"op", "arg"}
    [] variant = "Update" -> {"op", "arg"}
    [] OTHER -> {}

\* The call of accessor `name` on the wrapper w.
CallAccessor(name, w) ==
  LET v == w.variant
      s == w.syntax
  IN CASE v = "Assign" /\ name = "value" -> AssignExpr_value(s)
       [] v = "Bin" /\ name = "op" -> BinExpr_op(s)
       [] v = "Bin" /\ name = "left" -> BinExpr_left(s)
       [] v = "Bin" /\ name = "right" -> BinExpr_right(s)
       [] v = "BoolLit" /\ name = "value" -> BoolLit_value(s)
       [] v = "Call" /\ name = "callee" -> CallExpr_callee(s)
       [] v = "Call" /\ name = "args" -> CallExpr_args(s)
       [] v = "Ident" /\ name = "name" -> IdentExpr_name(s)
       [] v = "Logical" /\ name = "op" -> LogicalExpr_op(s)
       [] v = "Logical" /\ name = "left" -> LogicalExpr_left(s)
       [] v = "Logical" /\ name = "right" -> LogicalExpr_right(s)
       [] v = "NumLit" /\ name = "value" -> NumLit_value(s)
       [] v = "Seq" /\ name = "exprs" -> SeqExpr_exprs(s)
       [] v = "StrLit" /\ name = "value" -> StrLit_value(s)
       [] v = "Unary" /\ name = "op" -> UnaryExpr_op(s)
       [] v = "Unary" /\ name = "arg" -> UnaryExpr_arg(s)
       [] v = "Update" /\ name = "op" -> UpdateExpr_op(s)
       [] v = "Update" /\ name = "arg" -> UpdateExpr_arg(s)

\* An Expr over a well-formed expression node: `base` inside `depth`
\* parentheses.
InitCst ==
  /\ LexIdle /\ KindIdle /\ UnescIdle /\ SerIdle /\ AppIdle
  /\ \E base \in BaseExprs, depth \in 0..MaxParen :
       cst = [base |-> base, depth |-> depth, syntax |-> ParenN(base, depth),
              cast |-> NoResult, call |-> "-", res |-> NoResult]

\* expr.cast()
ExprCast ==
  /\ cst.cast.tag = "-"
  /\ cst' = [cst EXCEPT !.cast = Expr_cast(cst.syntax)]
  /\ UNCHANGED <<lexVars, kindVars, unesc, ser, app>>

\* The wrapper the cast returned has the accessor `name`.
HasAccessor(name) ==
  /\ cst.cast.tag = "Some"
  /\ name \in Accessors(cst.cast.val.variant)

\* The state after a call of the accessor `name` of that wrapper.
AfterCall(name) == [cst EXCEPT !.call = name, !.res = CallAccessor(name, cst.cast.val)]

\* wrapper.op()
GetOp ==
  /\ HasAccessor("op")
  /\ cst' = AfterCall("op")
  /\ UNCHANGED <<lexVars, kindVars, unesc, ser, app>>

\* wrapper.left()
GetLeft ==
  /\ HasAccessor("left")
  /\ cst' = AfterCall("left")
  /\ UNCHANGED <<lexVars, kindVars, unesc, ser, app>>

\* wrapper.right()
GetRight ==
  /\ HasAccessor("right")
  /\ cst' = AfterCall("right")
  /\ UNCHANGED <<lexVars, kindVars, unesc, ser, app>>

\* wrapper.arg()
GetArg ==
  /\ HasAccessor("arg")
  /\ cst' = AfterCall("arg")
  /\ UNCHANGED <<lexVars, kindVars, unesc, ser, app>>

\* wrapper.value()
GetValue ==
  /\ HasAccessor("value")
  /\ cst' = AfterCall("value")
  /\ UNCHANGED <<lexVars, kindVars, unesc, ser, app>>

\* wrapper.name()
GetName ==
  /\ HasAccessor("name")
  /\ cst' = AfterCall("name")
  /\ UNCHANGED <<lexVars, kindVars, unesc, ser, app>>

\* wrapper.callee()
GetCallee ==
  /\ HasAccessor("callee")
  /\ cst' = AfterCall("callee")
  /\ UNCHANGED <<lexVars, kindVars, unesc, ser, app>>

\* wrapper.args()
GetArgs ==
  /\ HasAccessor("args")
  /\ cst' = AfterCall("args")
  /\ UNCHANGED <<lexVars, kindVars, unesc, ser, app>>

\* wrapper.exprs()
GetExprs ==
  /\ HasAccessor("exprs")
  /\ cst' = AfterCall("exprs")
  /\ UNCHANGED <<lexVars, kindVars, unesc, ser, app>>

NextCst ==
  \/ ExprCast
  \/ GetOp
  \/ GetLeft
  \/ GetRight
  \/ GetArg
  \/ GetValue
  \/ GetName
  \/ GetCallee
  \/ GetArgs
  \/ GetExprs

SpecCst == InitCst /\ [][NextCst]_vars

-----------------------------------------------------------------------------
(* Properties of the typed view of expressions *)

\* The cast has been made.
CastDone == cst.cast.tag # "-"

\* The tokens that are direct children of a node.
DirectTokens(n) == SelectSeq(n.children, LAMBDA e : ~e.node)

\* The operator of an infix, prefix or postfix expression built by Infix,
\* Prefix or Postfix: its one direct token.
OperatorOf(n) == DirectTokens(n)[1].kind

\* C11: casting a well-formed node of any kind for which is_expr() is true
\* returns, without a panic, a variant that is not Error.
C11_CastSucceeds ==
  (CastDone /\ is_expr(cst.syntax.kind)) =>
    (cst.cast.tag = "Some" /\ cst.cast.val.variant # "Error")

\* C12: the cast of a NodeInfixExpr is Logical when its own operator token is
\* `&&` or `||` and Bin when it is a binary operator, whatever its operands
\* are: a plain identifier or a parenthesised expression with operators of
\* its own inside.
C12_InfixVariant ==
  (CastDone /\ cst.syntax.kind = "NodeInfixExpr") =>
    /\ cst.cast.tag = "Some"
    /\ cst.cast.val.variant =
         (IF OperatorOf(cst.syntax) \in {"TokenAmpAmp", "TokenPipePipe"}
            THEN "Logical" ELSE "Bin")

\* `(a && a) + (a && a)` has been cast to Bin.
C12_Witness ==
  /\ cst.syntax = Infix(Paren(Infix(IdentA, "TokenAmpAmp", IdentA)), "TokenPlus",
                        Paren(Infix(IdentA, "TokenAmpAmp", IdentA)))
  /\ cst.cast.tag = "Some"
  /\ cst.cast.val.variant = "Bin"

\* C13: op() of the LogicalExpr cast from a NodeInfixExpr is And for `&&` and
\* Or for `||`.
C13_LogicalOp ==
  (/\ CastDone
   /\ cst.syntax.kind = "NodeInfixExpr"
   /\ cst.cast.tag = "Some"
   /\ cst.cast.val.variant = "Logical"
   /\ cst.call = "op") =>
    cst.res = Some(IF OperatorOf(cst.syntax) = "TokenAmpAmp" THEN "And" ELSE "Or")

\* The UnaryOp the language gives each unary operator token.
UnaryOpOf(k) ==
  CASE k = "TokenTilde" -> "BitNot"
    [] k = "TokenMinus" -> "Neg"
    [] k = "TokenExcl" -> "Not"
    [] k = "TokenPlus" -> "ToNum"
    [] k = "TokenTypeof" -> "TypeOf"
    [] k = "TokenVoid" -> "Void"

\* C14: a NodePrefixExpr whose operator is `~`, `-`, `!`, `+`, `typeof` or
\* `void` casts to Unary, and op() of that UnaryExpr is BitNot, Neg, Not,
\* ToNum, TypeOf or Void; neither call panics.
C14_UnaryOps ==
  (/\ CastDone
   /\ cst.syntax.kind = "NodePrefixExpr"
   /\ OperatorOf(cst.syntax) \in UnaryOps) =>
    /\ cst.cast.tag = "Some"
    /\ cst.cast.val.variant = "Unary"
    /\ cst.call = "op" => cst.res = Some(UnaryOpOf(OperatorOf(cst.syntax)))

\* C15: inside any nesting of parentheses an expression E casts to the
\* variant E casts to, and each accessor that returns on the wrapper of E
\* returns the same on the wrapper of the parenthesised E.
C15_ParenTransparent ==
  LET inner == Expr_cast(cst.base) IN
  (CastDone /\ inner.tag = "Some") =>
    /\ cst.cast.tag = "Some"
    /\ cst.cast.val.variant = inner.val.variant
    /\ (cst.call # "-" /\ CallAccessor(cst.call, inner.val).tag = "Some") =>
         cst.res = CallAccessor(cst.call, inner.val)

-----------------------------------------------------------------------------
(* Quoted texts given to the unescaper *)

\* Most pieces in the content of a quoted text.
MaxAtoms == 2

\* The pieces a content is made of: a character standing for itself, an
\* escape the unescaper decodes, an escape it does not, a backslash alone.
PlainAtoms == {<<"a">>, <<"'">>, <<"\"">>}

EscapeAtoms == {<<"\\", c>> : c \in {"'", "\"", "\\", "b", "f", "n", "r", "t", "v"}}

OtherEscapeAtoms == {<<"\\", c>> : c \in {"x", "u", "0", "q"}}

LoneSlashAtom == <<"\\">>

Atoms == PlainAtoms \cup EscapeAtoms \cup OtherEscapeAtoms \cup {LoneSlashAtom}

RECURSIVE AtomSeqsOfLen(_)
AtomSeqsOfLen(n) ==
  IF n = 0 THEN {<<>>}
  ELSE {Append(s, a) : s \in AtomSeqsOfLen(n - 1), a \in Atoms}

\* The content `a\nb`.
ExampleAtoms == <<(<<"a">>), (<<"\\", "n">>), (<<"b">>)>>

AtomSeqs == UNION {AtomSeqsOfLen(n) : n \in 0..MaxAtoms} \cup {ExampleAtoms}

RECURSIVE Flatten(_)
Flatten(atoms) ==
  IF atoms = <<>> THEN <<>>
  ELSE Flatten(SubSeq(atoms, 1, Len(atoms) - 1)) \o atoms[Len(atoms)]

\* How the content is delimited: by double quotes, by single quotes, or not
\* properly: by nothing, by an opening double quote only, by a double quote
\* and a single quote.
Wraps == {"Double", "Single", "Bare", "Unterminated", "Mixed"}

QuotedText(wrap, content) ==
  CASE wrap = "Double" -> <<"\"">> \o content \o <<"\"">>
    [] wrap = "Single" -> <<"'">> \o content \o <<"'">>
    [] wrap = "Bare" -> content
    [] wrap = "Unterminated" -> <<"\"">> \o content
    [] wrap = "Mixed" -> <<"\"">> \o content \o <<"'">>

-----------------------------------------------------------------------------
(* The unescaper as a state machine *)

\* A NodeStrLit over the token text `quoted`.
StrLitOf(quoted) == CstNode("NodeStrLit", <<CstToken("TokenStrLit", quoted)>>)

InitUnesc ==
  /\ LexIdle /\ KindIdle /\ CstIdle /\ SerIdle /\ AppIdle
  /\ \E atoms \in AtomSeqs, wrap \in Wraps :
       unesc = [atoms |-> atoms, wrap |-> wrap,
                quoted |-> QuotedText(wrap, Flatten(atoms)),
                call |-> "-", calls |-> <<>>, res |-> NoResult]

\* unescape_string(quoted), with the calls it makes to its callback.
UnescapeString ==
  /\ unesc' = [unesc EXCEPT !.call = "unescape_string",
                            !.calls = CallbackCalls(unesc.quoted),
                            !.res = unescape_string(unesc.quoted)]
  /\ UNCHANGED <<lexVars, kindVars, cst, ser, app>>

\* value() of the StrLit over a token with the text `quoted`.
StrLitValue ==
  /\ unesc' = [unesc EXCEPT !.call = "StrLit::value",
                            !.calls = <<>>,
                            !.res = StrLit_value(StrLitOf(unesc.quoted))]
  /\ UNCHANGED <<lexVars, kindVars, cst, ser, app>>

NextUnesc == UnescapeString \/ StrLitValue

SpecUnesc == InitUnesc /\ [][NextUnesc]_vars

-----------------------------------------------------------------------------
(* Properties of the unescaper *)

\* The delimiter of a properly delimited quoted text.
ActiveDelimiter == IF unesc.wrap = "Double" THEN "\"" ELSE "'"

ProperlyDelimited == unesc.wrap \in {"Double", "Single"}

\* The character the language gives each escape.
EscapeValue(c) ==
  CASE c = "'" -> "'"
    [] c = "\"" -> "\""
    [] c = "\\" -> "\\"
    [] c = "b" -> "U+0008"
    [] c = "f" -> "U+000C"
    [] c = "n" -> "\n"
    [] c = "r" -> "\r"
    [] c = "t" -> "\t"
    [] c = "v" -> "U+000B"

\* A piece that unescapes to one character: one of the nine escapes, or a
\* character other than a backslash and the active delimiter.
Unescapable(atom) ==
  \/ atom \in EscapeAtoms
  \/ Len(atom) = 1 /\ atom[1] \notin {"\\", ActiveDelimiter}

AtomValue(atom) == IF Len(atom) = 2 THEN EscapeValue(atom[2]) ELSE atom[1]

\* C16: a properly delimited text whose content is made of the nine escapes
\* and of characters standing for themselves (the quote of the other kind
\* among them) unescapes to the characters the pieces stand for, in the
\* order of the pieces.
C16_EscapeMapping ==
  (/\ unesc.call = "unescape_string"
   /\ ProperlyDelimited
   /\ \A i \in 1..Len(unesc.atoms) : Unescapable(unesc.atoms[i])) =>
    unesc.res = Some([i \in 1..Len(unesc.atoms) |-> AtomValue(unesc.atoms[i])])

\* The double-quoted a-backslash-n-b has been unescaped to a, newline, b.
C16_Witness ==
  /\ unesc.call = "unescape_string"
  /\ unesc.quoted = <<"\"", "a", "\\", "n", "b", "\"">>
  /\ unesc.res = Some(<<"a", "\n", "b">>)

\* The positions in the quoted text of the characters of its content.
ContentPositions == 2..(Len(unesc.quoted) - 1)

\* The active delimiters inside the content that no backslash escapes.
BareDelimiters ==
  {i \in ContentPositions :
     /\ unesc.quoted[i] = ActiveDelimiter
     /\ BackslashesBefore(unesc.quoted, i) % 2 = 0}

\* The backslash that ends the content and that no backslash escapes.
LoneSlashes ==
  {i \in ContentPositions :
     /\ i = Len(unesc.quoted) - 1
     /\ unesc.quoted[i] = "\\"
     /\ BackslashesBefore(unesc.quoted, i) % 2 = 0}

\* The callback was called on the character at position i with result r.
Reported(i, r) ==
  \E k \in 1..Len(unesc.calls) : unesc.calls[k].start = i - 2 /\ unesc.calls[k].res = r

\* C17: on a properly delimited text, a call of the callback on a bare
\* active delimiter of the content reports EscapeOnlyChar and one on a
\* backslash ending the content reports LoneSlash; when unescape_string
\* returns, each of these characters has been reported; and once a character
\* has been reported as an error no string is yielded: the result is None,
\* whatever the other characters unescape to.
C17_ErrorDiscardsAll ==
  (unesc.call = "unescape_string" /\ ProperlyDelimited) =>
    /\ \A k \in 1..Len(unesc.calls) :
         LET c == unesc.calls[k] IN
         /\ c.start + 2 \in BareDelimiters => c.res = CharErr("EscapeOnlyChar")
         /\ c.start + 2 \in LoneSlashes => c.res = CharErr("LoneSlash")
    /\ unesc.res.tag # "panic" =>
         /\ \A i \in BareDelimiters : Reported(i, CharErr("EscapeOnlyChar"))
         /\ \A i \in LoneSlashes : Reported(i, CharErr("LoneSlash"))
    /\ (\E k \in 1..Len(unesc.calls) : unesc.calls[k].res.tag = "Err") =>
         /\ unesc.res.tag # "Some"
         /\ unesc.res.tag # "panic" => unesc.res = None

\* `"\n""`: the escape has been unescaped, the bare quote after it reported,
\* and no string returned.
C17_Witness ==
  /\ unesc.call = "unescape_string"
  /\ unesc.quoted = <<"\"", "\\", "n", "\"", "\"">>
  /\ unesc.calls = <<[start |-> 0, end |-> 2, res |-> CharOk("\n")],
                     [start |-> 2, end |-> 3, res |-> CharErr("EscapeOnlyChar")]>>
  /\ unesc.res = None

\* C18: the unescaper returns, with a string or without, on every content;
\* on `\x`, `\u`, `\0` and a backslash before any other character
\* unescape_char returns a character or an error.
C18_NeverAborts ==
  unesc.call = "unescape_string" => unesc.res.tag # "panic"

\* C19: where unescape_string yields no string for the text of the token,
\* for an escape error in it or for want of proper delimiters, value()
\* returns to its caller without a value.
C19_ValueRecoverable ==
  (unesc.call = "StrLit::value" /\ unescape_string(unesc.quoted) = None) =>
    unesc.res = None

-----------------------------------------------------------------------------
(* The owned tree and its serializer (owned.rs, ast/ser.rs) *)

\* An owned Expr: the variant and what it holds of interest here, the value
\* of a StrLit or the exprs of a SeqExpr.
OwnedExpr(variant, held) == [expr |-> variant, held |-> held]

OwnedStrLit(value) == OwnedExpr("StrLit", <<value>>)

OwnedSeqExpr(exprs) == OwnedExpr("Seq", exprs)

\* An owned Stmt: the variant and the expression it holds, if any.
OwnedStmt(variant, exprs) == [stmt |-> variant, exprs |-> exprs]

OwnedBreakStmt == OwnedStmt("Break", <<>>)

OwnedErrorStmt == OwnedStmt("Error", <<>>)

OwnedExprStmt(expr) == OwnedStmt("Expr", <<expr>>)

OwnedTraceStmt(value) == OwnedStmt("Trace", <<value>>)

\* <owned::Stmt as traits::Stmt>::cast
owned_Stmt_cast(stmt) == Some(stmt.stmt)

\* <owned::Expr as traits::Expr>::cast
owned_Expr_cast(expr) ==
  CASE expr.expr = "Seq" -> Some("Seq")
    [] expr.expr = "StrLit" -> Some("StrLit")
    [] OTHER -> Panic("unimplemented!()")

\* A compact JSON document is the sequence of its punctuators and of the
\* contents of its strings.  A string with nothing to escape in it:
JsonString(s) == <<"\"", s, "\"">>

\* serialize_field(key, value) on a struct serializer.
JsonField(key, value) == JsonString(key) \o <<":">> \o value

\* The parts of a struct or of a seq, a comma between two of them.
RECURSIVE JsonJoin(_)
JsonJoin(parts) ==
  IF parts = <<>> THEN <<>>
  ELSE IF Len(parts) = 1 THEN parts[1]
  ELSE JsonJoin(SubSeq(parts, 1, Len(parts) - 1)) \o <<",">> \o parts[Len(parts)]

\* serialize_struct ... end()
JsonStruct(fields) == <<"{">> \o JsonJoin(fields) \o <<"}">>

\* serialize_seq ... end()
JsonSeq(elements) == <<"[">> \o JsonJoin(elements) \o <<"]">>

\* The first panic among results, or the documents of all of them.
AllOf(results) ==
  IF \E i \in 1..Len(results) : results[i].tag = "panic"
    THEN results[CHOOSE i \in 1..Len(results) :
                   /\ results[i].tag = "panic"
                   /\ \A j \in 1..(i - 1) : results[j].tag # "panic"]
  ELSE Some([i \in 1..Len(results) |-> results[i].val])

RECURSIVE SerializeExpr(_)
\* SerializeStrLit
SerializeStrLit(e) ==
  Some(JsonStruct(<<JsonField("type", JsonString("StrLit")),
                    JsonField("value", JsonString(e.held[1]))>>))

\* SerializeSeqExprExprs
SerializeSeqExprExprs(e) ==
  LET elements == AllOf([i \in 1..Len(e.held) |-> SerializeExpr(e.held[i])])
  IN IF elements.tag = "panic" THEN elements ELSE Some(JsonSeq(elements.val))

\* SerializeSeqExpr
SerializeSeqExpr(e) ==
  LET exprs == SerializeSeqExprExprs(e) IN
  IF exprs.tag = "panic" THEN exprs
  ELSE Some(JsonStruct(<<JsonField("type", JsonString("SeqExpr")),
                         JsonField("exprs", exprs.val)>>))

\* SerializeExpr, with the arms an owned Expr can reach.
SerializeExpr(expr) ==
  LET cast == owned_Expr_cast(expr) IN
  IF cast.tag = "panic" THEN cast
  ELSE IF cast.val = "Seq" THEN SerializeSeqExpr(expr)
  ELSE SerializeStrLit(expr)

SerializeBreakStmt(s) == Some(JsonStruct(<<JsonField("type", JsonString("BreakStmt"))>>))

SerializeErrorStmt(s) == Some(JsonStruct(<<JsonField("type", JsonString("ErrorStmt"))>>))

SerializeExprStmt(s) ==
  LET expr == SerializeExpr(s.exprs[1]) IN
  IF expr.tag = "panic" THEN expr
  ELSE Some(JsonStruct(<<JsonField("type", JsonString("ExprStmt")),
                         JsonField("expr", expr.val)>>))

\* SerializeStmt, with the arms an owned Stmt can reach.
SerializeStmt(stmt) ==
  LET cast == owned_Stmt_cast(stmt) IN
  CASE cast.val = "Break" -> SerializeBreakStmt(stmt)
    [] cast.val = "Error" -> SerializeErrorStmt(stmt)
    [] cast.val = "Expr" -> SerializeExprStmt(stmt)
    [] OTHER -> Panic("unimplemented!()")

SerializeScriptStmts(script) ==
  LET elements == AllOf([i \in 1..Len(script.stmts) |-> SerializeStmt(script.stmts[i])])
  IN IF elements.tag = "panic" THEN elements ELSE Some(JsonSeq(elements.val))

SerializeScript(script) ==
  LET body == SerializeScriptStmts(script) IN
  IF body.tag = "panic" THEN body
  ELSE Some(JsonStruct(<<JsonField("type", JsonString("Script")),
                         JsonField("body", body.val)>>))

-----------------------------------------------------------------------------
(* Serialization as a state machine *)

\* Most statements in a script.
MaxStmts == 3

\* The statements of the scripts.
OwnedStmts ==
  {OwnedBreakStmt, OwnedErrorStmt,
   OwnedExprStmt(OwnedStrLit("a")),
   OwnedExprStmt(OwnedSeqExpr(<<OwnedStrLit("a"), OwnedStrLit("b")>>)),
   OwnedExprStmt(OwnedExpr("Error", <<>>)),
   OwnedTraceStmt(OwnedStrLit("a"))}

RECURSIVE StmtsOfLen(_)
StmtsOfLen(n) ==
  IF n = 0 THEN {<<>>}
  ELSE {Append(s, t) : s \in StmtsOfLen(n - 1), t \in OwnedStmts}

\* owned::Script
OwnedScript(stmts) == [stmts |-> stmts]

InitSer ==
  /\ LexIdle /\ KindIdle /\ UnescIdle /\ CstIdle /\ AppIdle
  /\ \E n \in 0..MaxStmts : \E stmts \in StmtsOfLen(n) :
       ser = [script |-> OwnedScript(stmts), json |-> NoResult]

\* serde_json::to_string(&script)
ToString ==
  /\ ser.json.tag = "-"
  /\ ser' = [ser EXCEPT !.json = SerializeScript(ser.script)]
  /\ UNCHANGED <<lexVars, kindVars, unesc, cst, app>>

NextSer == ToString

SpecSer == InitSer /\ [][NextSer]_vars

-----------------------------------------------------------------------------
(* Properties of the serializer *)

\* {"body":[{"type":"BreakStmt"},{"type":"BreakStmt"}]}
TwoBreaksJson ==
  <<"{", "\"", "body", "\"", ":", "[",
         "{", "\"", "type", "\"", ":", "\"", "BreakStmt", "\"", "}", ",",
         "{", "\"", "type", "\"", ":", "\"", "BreakStmt", "\"", "}",
    "]", "}">>

\* C20: the Script of two BreakStmt serializes to exactly
\* {"body":[{"type":"BreakStmt"},{"type":"BreakStmt"}]}.
C20_TwoBreaks ==
  (/\ ser.script = OwnedScript(<<OwnedBreakStmt, OwnedBreakStmt>>)
   /\ ser.json.tag # "-") =>
    ser.json = Some(TwoBreaksJson)

-----------------------------------------------------------------------------
(* Typed wrappers over syntax nodes: try_from and Stmt::cast *)

is_stmt(k) == k \in {"NodeExprStmt", "NodeVarStmt"}

\* The try_from of the wrappers: Ok(wrapper over the node) as Some, Err(())
\* as None.
Script_try_from(syntax) == IF syntax.kind = "NodeScript" THEN Some(syntax) ELSE None

Stmt_try_from(syntax) == IF is_stmt(syntax.kind) THEN Some(syntax) ELSE None

\* VarDecl::try_from as the code has it is VarDecl_try_from below; this one
\* takes the statement for one of its declarations.
VarDecl_try_from_stmt(syntax) ==
  IF syntax.kind \in {"NodeVarDecl", "NodeVarStmt"} THEN Some(syntax) ELSE None

VarDecl_try_from(syntax) == IF syntax.kind = "NodeVarDecl" THEN Some(syntax) ELSE None

BoolLit_try_from(syntax) == IF syntax.kind = "NodeBoolLit" THEN Some(syntax) ELSE None

NumLit_try_from(syntax) == IF syntax.kind = "NodeNumLit" THEN Some(syntax) ELSE None

IdentPat_try_from(syntax) == IF syntax.kind = "NodeIdent" THEN Some(syntax) ELSE None

StrLit_try_from(syntax) == IF syntax.kind = "NodeStrLit" THEN Some(syntax) ELSE None

\* Stmt::cast as the code has it is Stmt_cast below; this one knows the
\* break statement.
Stmt_cast_break(syntax) ==
  CASE syntax.kind = "NodeExprStmt" -> Wrapper("Expr", syntax)
    [] syntax.kind = "NodeVarStmt" -> Wrapper("VarStmt", syntax)
    [] syntax.kind = "NodeBreakStmt" -> Wrapper("Break", syntax)
    [] OTHER -> Wrapper("Error", syntax)

\* <Stmt as traits::Stmt>::cast of the Stmt over `syntax`.
Stmt_cast(syntax) ==
  CASE syntax.kind = "NodeExprStmt" -> Wrapper("Expr", syntax)
    [] syntax.kind = "NodeVarStmt" -> Wrapper("VarStmt", syntax)
    [] OTHER -> Wrapper("Error", syntax)

-----------------------------------------------------------------------------
(* Wrapping a node as a state machine *)

\* The children of the nodes wrapped: none, or an expression and a `;`.
WrappedChildren == {<<>>, <<IdentA, Tok("TokenSemicolon", ";")>>}

\* A syntax node of any kind.
InitTyped ==
  /\ AllIdle
  /\ \E k \in SyntaxKinds, cs \in WrappedChildren :
       app = [node |-> CstNode(k, cs), fn |-> "-", res |-> NoResult]

\* Script::try_from(node)
TryFromScript ==
  /\ app' = [app EXCEPT !.fn = "Script::try_from", !.res = Script_try_from(app.node)]
  /\ UNCHANGED restVars

\* Stmt::try_from(node)
TryFromStmt ==
  /\ app' = [app EXCEPT !.fn = "Stmt::try_from", !.res = Stmt_try_from(app.node)]
  /\ UNCHANGED restVars

\* Expr::try_from(node)
TryFromExpr ==
  /\ app' = [app EXCEPT !.fn = "Expr::try_from", !.res = Expr_try_from(app.node)]
  /\ UNCHANGED restVars

\* VarDecl::try_from(node)
TryFromVarDecl ==
  /\ app' = [app EXCEPT !.fn = "VarDecl::try_from", !.res = VarDecl_try_from(app.node)]
  /\ UNCHANGED restVars

\* BoolLit::try_from(node)
TryFromBoolLit ==
  /\ app' = [app EXCEPT !.fn = "BoolLit::try_from", !.res = BoolLit_try_from(app.node)]
  /\ UNCHANGED restVars

\* NumLit::try_from(node)
TryFromNumLit ==
  /\ app' = [app EXCEPT !.fn = "NumLit::try_from", !.res = NumLit_try_from(app.node)]
  /\ UNCHANGED restVars

\* StrLit::try_from(node)
TryFromStrLit ==
  /\ app' = [app EXCEPT !.fn = "StrLit::try_from", !.res = StrLit_try_from(app.node)]
  /\ UNCHANGED restVars

\* IdentPat::try_from(node)
TryFromIdentPat ==
  /\ app' = [app EXCEPT !.fn = "IdentPat::try_from", !.res = IdentPat_try_from(app.node)]
  /\ UNCHANGED restVars

\* (Stmt { syntax: node }).cast(): the struct holds whatever node it is given.
StmtCast ==
  /\ app' = [app EXCEPT !.fn = "Stmt::cast", !.res = Stmt_cast(app.node)]
  /\ UNCHANGED restVars

NextTyped ==
  \/ TryFromScript
  \/ TryFromStmt
  \/ TryFromExpr
  \/ TryFromVarDecl
  \/ TryFromBoolLit
  \/ TryFromNumLit
  \/ TryFromStrLit
  \/ TryFromIdentPat
  \/ StmtCast

SpecTyped == InitTyped /\ [][NextTyped]_vars

-----------------------------------------------------------------------------
(* Properties of the typed wrappers *)

\* C22: Stmt::cast returns, for a node of any kind: the Expr variant for a
\* NodeExprStmt, the VarStmt variant for a NodeVarStmt, the Error variant for
\* any other kind, each time over the node the Stmt holds.
C22_StmtCastTotal ==
  app.fn = "Stmt::cast" =>
    /\ app.res.tag = "Some"
    /\ app.res.val.syntax = app.node
    /\ app.res.val.variant =
         (IF app.node.kind = "NodeExprStmt" THEN "Expr"
          ELSE IF app.node.kind = "NodeVarStmt" THEN "VarStmt"
          ELSE "Error")

\* The Stmt over a NodeBreakStmt has been cast to Error.
C22_Witness ==
  /\ app.fn = "Stmt::cast"
  /\ app.node.kind = "NodeBreakStmt"
  /\ app.res = Wrapper("Error", app.node)

\* The kinds of each production.
KindsOf(wrapper) ==
  CASE wrapper = "Script::try_from" -> {"NodeScript"}
    [] wrapper = "Stmt::try_from" -> {k \in SyntaxKinds : is_stmt(k)}
    [] wrapper = "Expr::try_from" -> {k \in SyntaxKinds : is_expr(k)}
    [] wrapper = "VarDecl::try_from" -> {"NodeVarDecl"}
    [] wrapper = "BoolLit::try_from" -> {"NodeBoolLit"}
    [] wrapper = "NumLit::try_from" -> {"NodeNumLit"}
    [] wrapper = "StrLit::try_from" -> {"NodeStrLit"}
    [] wrapper = "IdentPat::try_from" -> {"NodeIdent"}

\* C23: try_from of a wrapper returns the wrapper over the node when the kind
\* of the node belongs to the production of the wrapper, and Err otherwise.
C23_TryFromChecksKind ==
  (app.fn # "-" /\ app.fn # "Stmt::cast") =>
    app.res = (IF app.node.kind \in KindsOf(app.fn) THEN Some(app.node) ELSE None)

\* VarDecl::try_from has refused a NodeVarStmt.
C23_Witness ==
  /\ app.fn = "VarDecl::try_from"
  /\ app.node.kind = "NodeVarStmt"
  /\ app.res = None

-----------------------------------------------------------------------------
(* The statements of a script: Script::stmts and ScriptStmts *)

\* ScriptStmts::next as the code has it is ScriptStmts_next below; this one
\* yields every child node.
ScriptStmts_next_unfiltered(inner) ==
  IF inner = <<>> THEN [item |-> None, inner |-> inner]
  ELSE [item |-> Some(inner[1]), inner |-> Tail(inner)]

\* ScriptStmts::next with `inner` the child nodes the iterator has not
\* visited: the item returned and the iterator left.
RECURSIVE ScriptStmts_next(_)
ScriptStmts_next(inner) ==
  IF inner = <<>> THEN [item |-> None, inner |-> inner]
  ELSE LET s == Stmt_try_from(inner[1]) IN
       IF s.tag = "Some" THEN [item |-> s, inner |-> Tail(inner)]
       ELSE ScriptStmts_next(Tail(inner))

\* Script::stmts(): the iterator over the child nodes of the script.
Script_stmts(syntax) == children(syntax)

-----------------------------------------------------------------------------
(* Scripts given to Script::stmts *)

MaxChildren == 3

Semicolon == Tok("TokenSemicolon", ";")

ExprStmtOf(e) == CstNode("NodeExprStmt", <<e, Semicolon>>)

VarDeclOf(pat, init) ==
  CstNode("NodeVarDecl",
          IF init = <<>> THEN <<pat>> ELSE <<pat, Tok("TokenEq", "=")>> \o init)

VarStmtOf(decls) ==
  CstNode("NodeVarStmt",
          <<CstToken("TokenVar", <<"v", "a", "r">>)>> \o decls \o <<Semicolon>>)

BreakStmtNode ==
  CstNode("NodeBreakStmt",
          <<CstToken("TokenBreak", <<"b", "r", "e", "a", "k">>), Semicolon>>)

\* What a script may have for a child: statements of the three kinds, a bare
\* expression, and a token.
ScriptChildren ==
  {ExprStmtOf(IdentA), VarStmtOf(<<VarDeclOf(IdentA, <<>>)>>), BreakStmtNode,
   IdentA, Semicolon}

ChildSeqs == UNION {[1..n -> ScriptChildren] : n \in 0..MaxChildren}

ScriptOf(cs) == CstNode("NodeScript", cs)

-----------------------------------------------------------------------------
(* Iterating over the statements as a state machine *)

\* A script; stmts() not called yet.
InitStmts ==
  /\ AllIdle
  /\ \E cs \in ChildSeqs :
       app = [script |-> ScriptOf(cs), called |-> FALSE, inner |-> <<>>,
              yielded |-> <<>>, casts |-> <<>>, done |-> FALSE]

\* script.stmts()
ScriptStmtsCall ==
  /\ ~app.called
  /\ app' = [app EXCEPT !.called = TRUE, !.inner = Script_stmts(app.script)]
  /\ UNCHANGED restVars

\* One call of next() that yields a statement; the caller casts it.
StmtsNextSome ==
  /\ app.called /\ ~app.done
  /\ LET r == ScriptStmts_next(app.inner) IN
       /\ r.item.tag = "Some"
       /\ app' = [app EXCEPT !.inner = r.inner,
                             !.yielded = Append(@, r.item.val),
                             !.casts = Append(@, Stmt_cast(r.item.val))]
  /\ UNCHANGED restVars

\* The call of next() that returns None.
StmtsNextNone ==
  /\ app.called /\ ~app.done
  /\ LET r == ScriptStmts_next(app.inner) IN
       /\ r.item.tag = "None"
       /\ app' = [app EXCEPT !.inner = r.inner, !.done = TRUE]
  /\ UNCHANGED restVars

NextStmts ==
  \/ ScriptStmtsCall
  \/ StmtsNextSome
  \/ StmtsNextNone

SpecStmts == InitStmts /\ [][NextStmts]_vars

-----------------------------------------------------------------------------
(* Properties of Script::stmts *)

\* The places, among all children of the script, of the child nodes that are
\* statements.
StmtPlaces(script) ==
  {i \in 1..Len(script.children) :
     script.children[i].node /\ is_stmt(script.children[i].kind)}

\* The i-th smallest element of a set of numbers.
RECURSIVE NthOf(_, _)
NthOf(S, i) ==
  LET m == CHOOSE x \in S : \A y \in S : x <= y
  IN IF i = 1 THEN m ELSE NthOf(S \ {m}, i - 1)

\* C30: the iterator of Script::stmts yields the child nodes of the script
\* that are statements (NodeExprStmt, NodeVarStmt), in source order, and no
\* other child; the cast of a yielded statement is never Error.
C30_StmtsYieldsStatements ==
  /\ Len(app.yielded) <= Cardinality(StmtPlaces(app.script))
  /\ \A i \in 1..Len(app.yielded) :
       /\ app.yielded[i] = app.script.children[NthOf(StmtPlaces(app.script), i)]
       /\ app.casts[i].tag = "Some"
       /\ app.casts[i].val.variant \in {"Expr", "VarStmt"}
       /\ app.casts[i].val.syntax = app.yielded[i]
  /\ app.done => Len(app.yielded) = Cardinality(StmtPlaces(app.script))

\* The iterator has finished over a script with a break statement between two
\* statements, and yielded the two.
C30_Witness ==
  /\ app.done
  /\ app.script.children =
       <<ExprStmtOf(IdentA), BreakStmtNode, VarStmtOf(<<VarDeclOf(IdentA, <<>>)>>)>>
  /\ Len(app.yielded) = 2

-----------------------------------------------------------------------------
(* The serializer over the typed view of the syntax tree *)

\* serde_json's writing of a str: the quotes, `"` and `\` escaped.
RECURSIVE JsonEscaped(_)
JsonEscaped(t) ==
  IF t = <<>> THEN <<>>
  ELSE (IF t[1] \in {"\"", "\\"} THEN <<"\\", t[1]>> ELSE <<t[1]>>) \o JsonEscaped(Tail(t))

JsonText(t) == <<"\"">> \o JsonEscaped(t) \o <<"\"">>

JsonBool(b) == IF b THEN <<"true">> ELSE <<"false">>

\* The decimal digits of a natural number.
RECURSIVE NatText(_)
NatText(n) ==
  LET d == <<"0", "1", "2", "3", "4", "5", "6", "7", "8", "9">>[(n % 10) + 1]
  IN IF n < 10 THEN <<d>> ELSE NatText(n \div 10) \o <<d>>

\* serde_json's writing of an f64 holding a natural number: `1.0`.
JsonF64(n) == NatText(n) \o <<".", "0">>

\* The serde names of the operators.
BinOpName ==
  [op \in {"Add", "BitAnd", "BitOr", "BitXor", "Equals", "Less", "LeftShift",
           "Multiply", "StrictEquals"} |->
     CASE op = "Add" -> <<"+">>
       [] op = "BitAnd" -> <<"&">>
       [] op = "BitOr" -> <<"|">>
       [] op = "BitXor" -> <<"^">>
       [] op = "Equals" -> <<"=", "=">>
       [] op = "Less" -> <<"<">>
       [] op = "LeftShift" -> <<"<", "<">>
       [] op = "Multiply" -> <<"*">>
       [] op = "StrictEquals" -> <<"=", "=", "=">>]

LogicalOpName == [op \in {"And", "Or"} |-> IF op = "And" THEN <<"&", "&">> ELSE <<"|", "|">>]

UnaryOpName ==
  [op \in {"BitNot", "Not", "Neg", "ToNum", "TypeOf", "Void"} |->
     CASE op = "BitNot" -> <<"~">>
       [] op = "Not" -> <<"!">>
       [] op = "Neg" -> <<"-">>
       [] op = "ToNum" -> <<"+">>
       [] op = "TypeOf" -> <<"t", "y", "p", "e", "o", "f">>
       [] op = "Void" -> <<"v", "o", "i", "d">>]

UpdateOpName ==
  [op \in {"Delete", "PreDec", "PreInc", "PostDec", "PostInc"} |->
     CASE op = "Delete" -> <<"d", "e", "l", "e", "t", "e">>
       [] op = "PreDec" -> <<"-", "-", "_">>
       [] op = "PreInc" -> <<"+", "+", "_">>
       [] op = "PostDec" -> <<"_", "-", "-">>
       [] op = "PostInc" -> <<"_", "+", "+">>]

\* The value of a result written by `write`, a panic left as it is.
Written(res, write(_)) == IF res.tag = "panic" THEN res ELSE Some(write(res.val))

\* serialize_struct, the serialize_field calls in order with the value of
\* each, end(): the first panic among the values, or the document.
StructOf(keys, values) ==
  LET all == AllOf(values) IN
  IF all.tag = "panic" THEN all
  ELSE Some(JsonStruct([i \in 1..Len(keys) |-> JsonField(keys[i], all.val[i])]))

TypeOnly(name) == StructOf(<<"type">>, <<Some(JsonString(name))>>)

RECURSIVE CstSerializeExpr(_)

\* SerializeExpr(&*e) of the expression an accessor returned.
CstSerializeChild(res) == IF res.tag = "panic" THEN res ELSE CstSerializeExpr(res.val)

\* SerializeCallArgs and SerializeSeqExprExprs: a seq of SerializeExpr.
CstSerializeExprs(res) ==
  IF res.tag = "panic" THEN res
  ELSE Written(AllOf([i \in 1..Len(res.val) |-> CstSerializeExpr(res.val[i])]), JsonSeq)

CstSerializeAssignExpr(s) ==
  StructOf(<<"type", "value">>,
           <<Some(JsonString("AssignExpr")), CstSerializeChild(AssignExpr_value(s))>>)

CstSerializeBinExpr(s) ==
  StructOf(<<"type", "op", "left", "right">>,
           <<Some(JsonString("BinExpr")),
             Written(BinExpr_op(s), LAMBDA op : JsonText(BinOpName[op])),
             CstSerializeChild(BinExpr_left(s)),
             CstSerializeChild(BinExpr_right(s))>>)

CstSerializeBoolLit(s) ==
  StructOf(<<"type", "value">>,
           <<Some(JsonString("BoolLit")), Written(BoolLit_value(s), JsonBool)>>)

CstSerializeCallExpr(s) ==
  StructOf(<<"type", "callee", "args">>,
           <<Some(JsonString("CallExpr")),
             CstSerializeChild(CallExpr_callee(s)),
             CstSerializeExprs(CallExpr_args(s))>>)

CstSerializeErrorExpr(s) == TypeOnly("ErrorExpr")

CstSerializeIdentExpr(s) ==
  StructOf(<<"type", "name">>,
           <<Some(JsonString("IdentExpr")), Written(IdentExpr_name(s), JsonText)>>)

CstSerializeLogicalExpr(s) ==
  StructOf(<<"type", "op", "left", "right">>,
           <<Some(JsonString("LogicalExpr")),
             Written(LogicalExpr_op(s), LAMBDA op : JsonText(LogicalOpName[op])),
             CstSerializeChild(LogicalExpr_left(s)),
             CstSerializeChild(LogicalExpr_right(s))>>)

CstSerializeNumLit(s) ==
  StructOf(<<"type", "value">>,
           <<Some(JsonString("NumLit")), Written(NumLit_value(s), JsonF64)>>)

CstSerializeSeqExpr(s) ==
  StructOf(<<"type", "exprs">>,
           <<Some(JsonString("SeqExpr")), CstSerializeExprs(SeqExpr_exprs(s))>>)

CstSerializeStrLit(s) ==
  StructOf(<<"type", "value">>,
           <<Some(JsonString("StrLit")), Written(StrLit_value(s), JsonText)>>)

CstSerializeUpdateExpr(s) ==
  StructOf(<<"type", "op", "arg">>,
           <<Some(JsonString("UpdateExpr")),
             Written(UpdateExpr_op(s), LAMBDA op : JsonText(UpdateOpName[op])),
             CstSerializeChild(UpdateExpr_arg(s))>>)

CstSerializeUnaryExpr(s) ==
  StructOf(<<"type", "op", "arg">>,
           <<Some(JsonString("UnaryExpr")),
             Written(UnaryExpr_op(s), LAMBDA op : JsonText(UnaryOpName[op])),
             CstSerializeChild(UnaryExpr_arg(s))>>)

\* SerializeExpr over an Expr of the syntax tree.
CstSerializeExpr(syntax) ==
  LET cast == Expr_cast(syntax) IN
  IF cast.tag = "panic" THEN cast
  ELSE LET v == cast.val.variant
           s == cast.val.syntax
       IN CASE v = "Assign" -> CstSerializeAssignExpr(s)
            [] v = "BoolLit" -> CstSerializeBoolLit(s)
            [] v = "Bin" -> CstSerializeBinExpr(s)
            [] v = "Call" -> CstSerializeCallExpr(s)
            [] v = "Error" -> CstSerializeErrorExpr(s)
            [] v = "Ident" -> CstSerializeIdentExpr(s)
            [] v = "Logical" -> CstSerializeLogicalExpr(s)
            [] v = "NumLit" -> CstSerializeNumLit(s)
            [] v = "Seq" -> CstSerializeSeqExpr(s)
            [] v = "StrLit" -> CstSerializeStrLit(s)
            [] v = "Update" -> CstSerializeUpdateExpr(s)
            [] v = "Unary" -> CstSerializeUnaryExpr(s)

\* ExprStmt::_expr: the first child node that is an expression.
ExprStmt_expr(syntax) ==
  IF ExprIter(syntax) = <<>> THEN Panic("InvalidExpressionNode")
  ELSE Some(ExprIter(syntax)[1])

\* VarStmt::decls(), all of the iterator: the child nodes VarDecl::try_from
\* accepts.
VarStmt_decls(syntax) ==
  SelectSeq(children(syntax), LAMBDA n : VarDecl_try_from(n).tag = "Some")

CstSerializeExprStmt(s) ==
  StructOf(<<"type", "expr">>,
           <<Some(JsonString("ExprStmt")), CstSerializeChild(ExprStmt_expr(s))>>)

CstSerializeVarDecl(s) == TypeOnly("VarDecl")

CstSerializeVarStmt(s) ==
  StructOf(<<"type", "decls">>,
           <<Some(JsonString("VarStmt")),
             Written(AllOf([i \in 1..Len(VarStmt_decls(s)) |->
                              CstSerializeVarDecl(VarStmt_decls(s)[i])]), JsonSeq)>>)

CstSerializeErrorStmt(s) == TypeOnly("ErrorStmt")

\* SerializeStmt over a Stmt of the syntax tree.
CstSerializeStmt(syntax) ==
  LET cast == Stmt_cast(syntax).val IN
  CASE cast.variant = "Expr" -> CstSerializeExprStmt(cast.syntax)
    [] cast.variant = "VarStmt" -> CstSerializeVarStmt(cast.syntax)
    [] cast.variant = "Error" -> CstSerializeErrorStmt(cast.syntax)
    [] OTHER -> Panic("unimplemented!()")

\* All the items of the iterator Script::stmts returns.
RECURSIVE ScriptStmtsAll(_)
ScriptStmtsAll(inner) ==
  LET r == ScriptStmts_next(inner) IN
  IF r.item.tag = "None" THEN <<>> ELSE <<r.item.val>> \o ScriptStmtsAll(r.inner)

\* SerializeScript over a Script of the syntax tree.
CstSerializeScript(syntax) ==
  LET stmts == ScriptStmtsAll(Script_stmts(syntax)) IN
  StructOf(<<"type", "body">>,
           <<Some(JsonString("Script")),
             Written(AllOf([i \in 1..Len(stmts) |-> CstSerializeStmt(stmts[i])]), JsonSeq)>>)

-----------------------------------------------------------------------------
(* Serializing a script of the syntax tree as a state machine *)

\* The statements before the expression statement of the scripts serialized.
ScriptPrefixes == {<<>>, <<VarStmtOf(<<VarDeclOf(IdentA, <<OneLit>>)>>)>>, <<ExprStmtOf(TrueLit)>>}

\* The expressions of the productions that have a record of their own.
SerializedExprs == BaseExprs \ {EmptyArrayLit, EmptyObjectLit}

\* The root node of a parsed script; no Script over it yet.
InitCstSer ==
  /\ AllIdle
  /\ \E prefix \in ScriptPrefixes, base \in SerializedExprs, depth \in 0..MaxParen :
       app = [node |-> ScriptOf(prefix \o <<ExprStmtOf(ParenN(base, depth))>>),
              script |-> NoResult, json |-> NoResult]

\* Script::try_from(node)
ScriptTryFrom ==
  /\ app.script.tag = "-"
  /\ app' = [app EXCEPT !.script = Script_try_from(app.node)]
  /\ UNCHANGED restVars

\* serde_json::to_string(&script)
CstToString ==
  /\ app.script.tag = "Some" /\ app.json.tag = "-"
  /\ app' = [app EXCEPT !.json = CstSerializeScript(app.script.val)]
  /\ UNCHANGED restVars

NextCstSer ==
  \/ ScriptTryFrom
  \/ CstToString

SpecCstSer == InitCstSer /\ [][NextCstSer]_vars

-----------------------------------------------------------------------------
(* Properties of the serializer over the syntax tree *)

\* The token that is a direct child of n, the only one of its kind of place.
OnlyToken(n) == DirectTokens(n)[1]

\* The record of each production, from the shape of the node alone:
\* parentheses stand for the expression inside them, an operator is written
\* as in the source (an update operator with `_` at the place of its operand).
RECURSIVE ProductionDoc(_)
ProductionDocs(nodes) == JsonSeq([i \in 1..Len(nodes) |-> ProductionDoc(nodes[i])])

ProductionDoc(n) ==
  LET k == n.kind
      es == ExprIter(n)
      Rec(name, keys, vals) ==
        JsonStruct(<<JsonField("type", JsonString(name))>>
                     \o [i \in 1..Len(keys) |-> JsonField(keys[i], vals[i])])
  IN CASE k = "NodeScript" ->
            Rec("Script", <<"body">>,
                <<ProductionDocs(SelectSeq(children(n), LAMBDA c : is_stmt(c.kind)))>>)
       [] k = "NodeExprStmt" -> Rec("ExprStmt", <<"expr">>, <<ProductionDoc(es[1])>>)
       [] k = "NodeVarStmt" ->
            Rec("VarStmt", <<"decls">>,
                <<ProductionDocs(SelectSeq(children(n), LAMBDA c : c.kind = "NodeVarDecl"))>>)
       [] k = "NodeVarDecl" -> Rec("VarDecl", <<>>, <<>>)
       [] k = "NodeParenExpr" -> ProductionDoc(es[1])
       [] k = "NodeIdent" -> Rec("IdentExpr", <<"name">>, <<JsonText(OnlyToken(n).text)>>)
       [] k = "NodeBoolLit" ->
            Rec("BoolLit", <<"value">>, <<JsonBool(OnlyToken(n).kind = "TokenTrue")>>)
       [] k = "NodeNumLit" ->
            Rec("NumLit", <<"value">>, <<OnlyToken(n).text \o <<".", "0">> >>)
       [] k = "NodeStrLit" ->
            Rec("StrLit", <<"value">>,
                <<JsonText(SubSeq(OnlyToken(n).text, 2, Len(OnlyToken(n).text) - 1))>>)
       [] k = "NodeInfixExpr" ->
            Rec(IF OnlyToken(n).kind \in {"TokenAmpAmp", "TokenPipePipe"}
                  THEN "LogicalExpr" ELSE "BinExpr",
                <<"op", "left", "right">>,
                <<JsonText(OnlyToken(n).text), ProductionDoc(es[1]), ProductionDoc(es[2])>>)
       [] k = "NodePrefixExpr" ->
            IF OnlyToken(n).kind \in {"TokenMinusMinus", "TokenPlusPlus"}
              THEN Rec("UpdateExpr", <<"op", "arg">>,
                       <<JsonText(OnlyToken(n).text \o <<"_">>), ProductionDoc(es[1])>>)
            ELSE Rec(IF OnlyToken(n).kind = "TokenDelete" THEN "UpdateExpr" ELSE "UnaryExpr",
                     <<"op", "arg">>,
                     <<JsonText(OnlyToken(n).text), ProductionDoc(es[1])>>)
       [] k = "NodePostfixExpr" ->
            Rec("UpdateExpr", <<"op", "arg">>,
                <<JsonText(<<"_">> \o OnlyToken(n).text), ProductionDoc(es[1])>>)
       [] k = "NodeSeqExpr" -> Rec("SeqExpr", <<"exprs">>, <<ProductionDocs(es)>>)
       [] k = "NodeAssignExpr" -> Rec("AssignExpr", <<"value">>, <<ProductionDoc(es[2])>>)
       [] k = "NodeCallExpr" ->
            Rec("CallExpr", <<"callee", "args">>,
                <<ProductionDoc(es[1]),
                  ProductionDocs(ExprIter(SelectSeq(children(n), LAMBDA c : c.kind = "NodeArgs")[1]))>>)

\* C21: serializing a script returns the document in which every node has the
\* record of its production, with the fields of the production and the
\* children in source order.
C21_TypedRecords ==
  app.json.tag # "-" => app.json = Some(ProductionDoc(app.node))

-----------------------------------------------------------------------------
(* Properties of the owned tree *)

\* The owned expressions directly under the statements of a script.
OwnedExprsOf(script) ==
  {script.stmts[i].exprs[1] :
     i \in {i \in 1..Len(script.stmts) : script.stmts[i].exprs # <<>>}}

\* C24: Expr::cast of the owned tree returns a variant for an expression of
\* any variant of the enum, and serializing a script of owned statements
\* returns a document.
C24_OwnedCastTotal ==
  /\ \A e \in OwnedExprsOf(ser.script) : owned_Expr_cast(e).tag = "Some"
  /\ ser.json.tag # "-" => ser.json.tag = "Some"

-----------------------------------------------------------------------------
(* SeqExpr::exprs of the owned and of the borrowed tree *)

\* core::slice::Iter over the elements v.
slice_Iter(v) == [rest |-> v]

\* Iterator::size_hint as the trait provides it when an iterator does not
\* define its own.
Iterator_size_hint_default(it) == [lo |-> 0, hi |-> None]

\* slice::Iter::size_hint: the number of elements left, exactly.  Map and Box
\* forward size_hint to the iterator they hold.
slice_Iter_size_hint(it) == [lo |-> Len(it.rest), hi |-> Some(Len(it.rest))]

slice_Iter_next(it) ==
  IF it.rest = <<>> THEN [item |-> None, it |-> it]
  ELSE [item |-> Some(it.rest[1]), it |-> slice_Iter(Tail(it.rest))]

\* owned::SeqExpr::exprs: self.exprs.iter().map(|e| MaybeOwned::Borrowed(e));
\* the item of the Map is the element behind the reference.
owned_SeqExpr_exprs(seq) == slice_Iter(seq.held)

\* borrowed::SeqExpr::exprs: self.exprs.iter()
borrowed_SeqExpr_exprs(seq) == slice_Iter(seq.held)

SeqExpr_exprs_of(backend, seq) ==
  IF backend = "owned" THEN owned_SeqExpr_exprs(seq) ELSE borrowed_SeqExpr_exprs(seq)

\* The `len` SerializeSeqExprExprs gives to serialize_seq.
SeqLenOf(hint) ==
  IF hint.hi.tag = "Some" /\ hint.lo = hint.hi.val THEN Some(hint.lo) ELSE None

-----------------------------------------------------------------------------
(* Iterating over a SeqExpr as a state machine *)

MaxExprs == 3

\* The expressions both trees have.
SeqElements == {OwnedStrLit("foo"), OwnedStrLit("bar"), OwnedExpr("Error", <<>>)}

ElementSeqs == UNION {[1..n -> SeqElements] : n \in 0..MaxExprs}

Backends == {"owned", "borrowed"}

\* A SeqExpr built from n expressions.
InitSeq ==
  /\ AllIdle
  /\ \E backend \in Backends, exprs \in ElementSeqs :
       app = [backend |-> backend, seq |-> OwnedSeqExpr(exprs), it |-> NoResult,
              hint |-> NoResult, len |-> NoResult, yielded |-> <<>>, done |-> FALSE]

\* let exprs = self.0.exprs();
SeqExprsCall ==
  /\ app.it.tag = "-"
  /\ app' = [app EXCEPT !.it = Some(SeqExpr_exprs_of(app.backend, app.seq))]
  /\ UNCHANGED restVars

\* exprs.size_hint() and the len computed from it, before the loop.
SeqSizeHint ==
  /\ app.it.tag = "Some" /\ app.hint.tag = "-"
  /\ LET hint == slice_Iter_size_hint(app.it.val) IN
       app' = [app EXCEPT !.hint = Some(hint), !.len = SeqLenOf(hint)]
  /\ UNCHANGED restVars

\* One turn of `for expr in exprs`.
SeqNextSome ==
  /\ app.hint.tag = "Some" /\ ~app.done
  /\ LET r == slice_Iter_next(app.it.val) IN
       /\ r.item.tag = "Some"
       /\ app' = [app EXCEPT !.it = Some(r.it), !.yielded = Append(@, r.item.val)]
  /\ UNCHANGED restVars

\* The end of the loop.
SeqNextNone ==
  /\ app.hint.tag = "Some" /\ ~app.done
  /\ LET r == slice_Iter_next(app.it.val) IN
       /\ r.item.tag = "None"
       /\ app' = [app EXCEPT !.done = TRUE]
  /\ UNCHANGED restVars

NextSeq ==
  \/ SeqExprsCall
  \/ SeqSizeHint
  \/ SeqNextSome
  \/ SeqNextNone

SpecSeq == InitSeq /\ [][NextSeq]_vars

-----------------------------------------------------------------------------
(* Properties of SeqExpr::exprs *)

\* C25: on both trees the iterator of a SeqExpr built from n expressions
\* reports the size hint (n, Some(n)), so the serializer gives the length n
\* to serialize_seq, and it yields the n expressions in order.
C25_ExactLengthHint ==
  LET n == Len(app.seq.held) IN
  /\ app.hint.tag = "Some" =>
       /\ app.hint.val.lo = n
       /\ app.hint.val.hi = Some(n)
       /\ app.len = Some(n)
  /\ Len(app.yielded) <= n
  /\ app.yielded = SubSeq(app.seq.held, 1, Len(app.yielded))
  /\ app.done => app.yielded = app.seq.held

\* The two expressions of the borrowed SeqExpr of `foo` and `bar` have been
\* yielded after the hint (2, Some(2)).
C25_Witness ==
  /\ app.backend = "borrowed"
  /\ app.seq.held = <<OwnedStrLit("foo"), OwnedStrLit("bar")>>
  /\ app.hint = Some([lo |-> 2, hi |-> Some(2)])
  /\ app.len = Some(2)
  /\ app.done

-----------------------------------------------------------------------------
(* Trimming parentheses as a state machine *)

\* An expression under 0..MaxParen pairs of parentheses.
InitTrim ==
  /\ AllIdle
  /\ \E base \in BaseExprs, depth \in 0..MaxParen :
       app = [base |-> base, depth |-> depth, node |-> ParenN(base, depth),
              res |-> NoResult, again |-> NoResult]

\* trim_paren(node)
TrimParen ==
  /\ app.res.tag = "-"
  /\ app' = [app EXCEPT !.res = trim_paren(app.node)]
  /\ UNCHANGED restVars

\* trim_paren of the node the first call returned.
TrimParenAgain ==
  /\ app.res.tag = "Some" /\ app.again.tag = "-"
  /\ app' = [app EXCEPT !.again = trim_paren(app.res.val)]
  /\ UNCHANGED restVars

NextTrim ==
  \/ TrimParen
  \/ TrimParenAgain

SpecTrim == InitTrim /\ [][NextTrim]_vars

-----------------------------------------------------------------------------
(* Properties of trim_paren *)

\* C26: trim_paren of an expression under parentheses returns the expression
\* under all of them, which is not a NodeParenExpr; trim_paren of an
\* expression without parentheses around it, and of the node trim_paren
\* returned, returns that node.
C26_TrimParen ==
  /\ app.res.tag # "-" =>
       /\ app.res = Some(app.base)
       /\ app.res.val.kind # "NodeParenExpr"
       /\ app.depth = 0 => app.res = Some(app.node)
  /\ app.again.tag # "-" => app.again = app.res

\* trim_paren has taken two pairs of parentheses off `((a + (a)))` and has
\* returned the same node when applied to its result.
C26_Witness ==
  /\ app.depth = 2
  /\ app.base = Infix(IdentA, "TokenPlus", Paren(IdentA))
  /\ app.res = Some(app.base)
  /\ app.again = app.res

-----------------------------------------------------------------------------
(* Finding the infix operator as a state machine *)

MaxSymbols == 3

\* What the children given to find_infix_op are drawn from: a plain operand,
\* an operand with an operator of its own inside, infix operators of the
\* three classes, and a token that is no infix operator.
FindSymbols ==
  {IdentA, Infix(IdentA, "TokenStar", IdentA),
   OpToken("TokenPlus"), OpToken("TokenAmpAmp"), OpToken("TokenEq"), OpToken("TokenExcl")}

SymbolSeqs == UNION {[1..n -> FindSymbols] : n \in 0..MaxSymbols}

\* The children of a node, in source order.
InitFind ==
  /\ AllIdle
  /\ \E symbols \in SymbolSeqs : app = [symbols |-> symbols, res |-> NoResult]

\* find_infix_op(&mut node.children_with_tokens())
FindInfixOp ==
  /\ app.res.tag = "-"
  /\ app' = [app EXCEPT !.res = find_infix_op(app.symbols)]
  /\ UNCHANGED restVars

NextFind == FindInfixOp

SpecFind == InitFind /\ [][NextFind]_vars

-----------------------------------------------------------------------------
(* Properties of find_infix_op *)

\* The places of the direct children that are infix operator tokens with a
\* child node somewhere before them.
InfixOpPlaces(symbols) ==
  {i \in 1..Len(symbols) :
     /\ ~symbols[i].node
     /\ is_infix_op(symbols[i].kind)
     /\ \E j \in 1..(i - 1) : symbols[j].node}

\* C27: find_infix_op returns the first direct child that is an infix
\* operator token and has a child node before it; it aborts with NoInfixOp
\* when the direct children have no such token, whatever tokens lie before
\* the first node or inside the child nodes.
C27_FindInfixOp ==
  app.res.tag # "-" =>
    LET places == InfixOpPlaces(app.symbols) IN
    IF places = {} THEN app.res = Panic("NoInfixOp")
    ELSE app.res = Some(app.symbols[CHOOSE i \in places : \A j \in places : i <= j])

\* Among the children `+ a*a &&` the `&&` has been found: the `+` before the
\* node and the `*` inside it were passed over.
C27_Witness ==
  /\ app.symbols = <<OpToken("TokenPlus"), Infix(IdentA, "TokenStar", IdentA),
                     OpToken("TokenAmpAmp")>>
  /\ app.res = Some(OpToken("TokenAmpAmp"))

-----------------------------------------------------------------------------
(* Agreement of the operator classes with the operator tables *)

\* The binary operators of the language.
BinOpTokens ==
  {"TokenAmp", "TokenCaret", "TokenEqEq", "TokenEqEqEq", "TokenLt", "TokenLtLt",
   "TokenMinus", "TokenPipe", "TokenPlus", "TokenSlash", "TokenStar"}

\* C28: is_bin_op() holds for the eleven binary operators; a NodeInfixExpr
\* whose operator is one of them casts to Bin, and op() of that BinExpr
\* returns a BinOp.
C28_BinOpsAgree ==
  /\ {k \in SyntaxKinds : is_bin_op(k)} = BinOpTokens
  /\ (/\ CastDone
      /\ cst.depth = 0
      /\ cst.syntax.kind = "NodeInfixExpr"
      /\ is_bin_op(OperatorOf(cst.syntax))) =>
       /\ cst.cast = Wrapper("Bin", cst.syntax)
       /\ cst.call = "op" => cst.res.tag = "Some"

-----------------------------------------------------------------------------
(* Agreement of the tokenizer with the unescaper *)

\* The results the callback gets on the content of a quoted text, up to the
\* end or to an escape the unescaper does not handle.
ResultsOn(quoted) ==
  LET calls == CallbackCalls(quoted) IN [i \in 1..Len(calls) |-> calls[i].res]

\* C29: the text of every TokenStrLit token the tokenizer emits is taken by
\* find_quoted_content as a double-quoted text, and unescape_string_content
\* reports neither EscapeOnlyChar nor LoneSlash on its content.
C29_StrLitTokensUnescape ==
  \A i \in 1..Len(tokens) :
    tokens[i].kind = "TokenStrLit" =>
      /\ find_quoted_content(tokens[i].text).tag = "Some"
      /\ find_quoted_content(tokens[i].text).val.quotes = "Double"
      /\ \A j \in 1..Len(ResultsOn(tokens[i].text)) :
           ResultsOn(tokens[i].text)[j] \notin {CharErr("EscapeOnlyChar"), CharErr("LoneSlash")}

\* The tokenizer has emitted the TokenStrLit `"\""`, whose content is the
\* escape of a double quote, and the unescaper takes it as one character.
C29_Witness ==
  /\ tokens # <<>>
  /\ LastToken.kind = "TokenStrLit"
  /\ LastToken.text = <<"\"", "\\", "\"", "\"">>
  /\ ResultsOn(LastToken.text) = <<CharOk("\"")>>

====
